---------------------------- MODULE Spec2Model ----------------------------
(***************************************************************************)
(* tileserver-gl: the byte-range sources of the PMTiles adapter, the tile  *)
(* route of serve_data, the archive metadata, the vector-tile encoder and  *)
(* the terrain functions combineTiles and serializeMVT.                    *)
(*                                                                         *)
(* The repository holds two revisions of pmtiles_adapter.js:               *)
(*   "adapter"  src/src/pmtiles_adapter.js  (modulo-based chunk length,    *)
(*              downloadedPieces cache, init resolves in the add callback) *)
(*   "part000"  src/unnamed/part_000        (min-based bytesToCopy, no     *)
(*              cache use, init resolves on the first 'download' event)    *)
(* The variable rev fixes the revision a behaviour runs.                   *)
(*                                                                         *)
(* It also holds two revisions of the vector-tile encoder:                 *)
(*   "vtpbf"    src/src/vtpbf.js            (value cache key type:value,   *)
(*              rings flattened with flat(Infinity))                       *)
(*   "terrain"  src/src/terrain.js:331-542  (non-primitive values turned   *)
(*              to JSON, value cache key the fixed text "$:$", rings read  *)
(*              as flat arrays)                                            *)
(* The variable encoder fixes the revision an encoding behaviour runs.     *)
(***************************************************************************)
EXTENDS Integers, Sequences, FiniteSets, TLC

\* ------------------------------------------------------------ bounds
ContentLen == 5
MaxTail == 3

\* ------------------------------------------------------------ helpers
Min(a, b) == IF a < b THEN a ELSE b
Max(a, b) == IF a > b THEN a ELSE b

Revisions == {"adapter", "part000"}
PieceLengths == {2, 3}
\* The model runs two getBytes calls, enough for every overlap of two calls.
Calls == {1, 2}

\* The archive: byte k-1 (0-based) holds the value k, so every position is
\* recognisable and 0 is what Buffer.alloc / new Uint8Array fill with.
Content == [k \in 1..ContentLen |-> k]

Zeros(n) == [k \in 1..n |-> 0]

\* buf.slice(start, end) of a Buffer, 0-based, end exclusive, clamped.
BufSlice(buf, start, end) ==
    LET e == Min(end, Len(buf))
    IN  IF start >= e THEN << >> ELSE SubSeq(buf, start + 1, e)

\* A null / undefined piece buffer handed over by the piece-fetch capability.
Null == << -1 >>

\* ------------------------------------------------- source identifiers
\* An identifier is a sequence of one-character strings.
UpperLetters == <<"A","B","C","D","E","F","G","H","I","J","K","L","M",
                  "N","O","P","Q","R","S","T","U","V","W","X","Y","Z">>
LowerLetters == <<"a","b","c","d","e","f","g","h","i","j","k","l","m",
                  "n","o","p","q","r","s","t","u","v","w","x","y","z">>
Range(f) == {f[k] : k \in DOMAIN f}
Digits == {"0","1","2","3","4","5","6","7","8","9"}

UpperSet == Range(UpperLetters)
LowerOf == [ch \in UpperSet |->
              LowerLetters[CHOOSE k \in DOMAIN UpperLetters :
                              UpperLetters[k] = ch]]
WordChars == Range(LowerLetters) \cup Digits \cup {"_"}

\* Case folding of the regular expressions' /i flag.
Lower(ch) == IF ch \in UpperSet THEN LowerOf[ch] ELSE ch
LowerAll(s) == [k \in DOMAIN s |-> Lower(s[k])]

\* \w (and \d, which it contains): letters, digits and the underscore.
IsWordChar(ch) == Lower(ch) \in WordChars
\* [\w\d%.:\/_-]
IsValueChar(ch) == IsWordChar(ch) \/ ch \in {"%", ".", ":", "/", "-"}

HasPrefix(s, p) == Len(s) >= Len(p) /\ SubSeq(s, 1, Len(p)) = p

HttpPrefix == <<"h","t","t","p",":","/","/">>
HttpsPrefix == <<"h","t","t","p","s",":","/","/">>
MagnetPrefix == <<"m","a","g","n","e","t",":","?","x","t","=",
                  "u","r","n",":","b","t","i","h",":">>

\* /^https?:\/\//i
httpTester(s) ==
    HasPrefix(LowerAll(s), HttpPrefix) \/ HasPrefix(LowerAll(s), HttpsPrefix)

\* A stricter expression, [\w\d]+(&[\w\d]+=[\w\d%.:\/_-]+)*$, in which every
\* parameter carries exactly one value.
MagnetStepStrict(q, ch) ==
    CASE q = "hash0" -> IF IsWordChar(ch) THEN "hash" ELSE "dead"
      [] q = "hash"  -> IF IsWordChar(ch) THEN "hash"
                        ELSE IF ch = "&" THEN "key0" ELSE "dead"
      [] q = "key0"  -> IF IsWordChar(ch) THEN "keyonly" ELSE "dead"
      [] q = "keyonly" -> IF IsWordChar(ch) THEN "keyonly"
                        ELSE IF ch = "=" THEN "val0" ELSE "dead"
      [] q = "val0"  -> IF IsValueChar(ch) THEN "val" ELSE "dead"
      [] q = "val"   -> IF IsValueChar(ch) THEN "val"
                        ELSE IF ch = "&" THEN "key0" ELSE "dead"
      [] OTHER       -> "dead"

\* The automaton of [\w\d]+(&[\w\d]+(=[\w\d%.:\/_-]+)*)*$ : the state after
\* reading ch in state q ("dead" when the expression cannot match any more).
MagnetStep(q, ch) ==
    CASE q = "hash0" -> IF IsWordChar(ch) THEN "hash" ELSE "dead"
      [] q = "hash"  -> IF IsWordChar(ch) THEN "hash"
                        ELSE IF ch = "&" THEN "key0" ELSE "dead"
      [] q = "key0"  -> IF IsWordChar(ch) THEN "key" ELSE "dead"
      [] q = "key"   -> IF IsWordChar(ch) THEN "key"
                        ELSE IF ch = "&" THEN "key0"
                        ELSE IF ch = "=" THEN "val0" ELSE "dead"
      [] q = "val0"  -> IF IsValueChar(ch) THEN "val" ELSE "dead"
      [] q = "val"   -> IF IsValueChar(ch) THEN "val"
                        ELSE IF ch = "&" THEN "key0"
                        ELSE IF ch = "=" THEN "val0" ELSE "dead"
      [] OTHER       -> "dead"

RECURSIVE MagnetRun(_, _, _)
MagnetRun(s, k, q) ==
    IF k > Len(s) THEN q \in {"hash", "key", "val"}
    ELSE MagnetRun(s, k + 1, MagnetStep(q, s[k]))

\* /^magnet:\?xt=urn:btih:[\w\d]+(&[\w\d]+(=[\w\d%.:\/_-]+)*)*$/i
magnetTester(s) ==
    /\ HasPrefix(LowerAll(s), MagnetPrefix)
    /\ MagnetRun(s, Len(MagnetPrefix) + 1, "hash0")

\* The identifiers the model opens: a head followed by a tail of up to
\* MaxTail characters over TailChars.
Heads == { MagnetPrefix,
           <<"M">> \o Tail(MagnetPrefix),
           SubSeq(MagnetPrefix, 1, Len(MagnetPrefix) - 1),
           <<"x">> \o MagnetPrefix,
           MagnetPrefix \o <<"a","b","1","&","t","r">>,
           MagnetPrefix \o <<"a","b","1","&","t","r","=","u">>,
           HttpPrefix, HttpsPrefix, <<"H","T","T","P",":","/","/">>,
           <<"h","t","t","p",":","/">>,
           <<"/","d","a","t","a","/">> }
TailChars == {"a", "Z", "7", "_", "&", "=", "/"}
RECURSIVE TailsOf(_)
TailsOf(n) ==
    IF n = 0 THEN { << >> }
    ELSE LET shorter == TailsOf(n - 1)
         IN  shorter \cup { t \o <<ch>> : t \in shorter, ch \in TailChars }
Identifiers == { h \o t : h \in Heads, t \in TailsOf(MaxTail) }

\* The identifiers of the byte-range specification: one per source variant.
SampleMagnet == MagnetPrefix \o <<"a","b","1">>
SampleHttp == HttpsPrefix \o <<"h","/","a">>
SamplePath == <<"/","d","a","t","a","/","a">>
SampleIds == {SampleMagnet, SampleHttp, SamplePath}

\* ------------------------------------------------------------- state
VARIABLES
    rev,              \* the revision of pmtiles_adapter.js that runs
    pieceLength,      \* torrent.pieceLength of the swarm's torrent
    filePath,         \* FilePath given to openPMtiles (<< >> before it)
    source,           \* variant openPMtiles picked: none, torrent, http, file
    opened,           \* openPMtiles has returned a PMTiles object
    fdOpen,           \* the descriptor of fs.openSync is open
    closed,           \* closePMTiles has been called
    client,           \* this.client: "none", "live" or "null"
    torrent,          \* this.torrent is set
    pieceSize,        \* this.pieceSize (0 models null)
    downloadedPieces, \* this.downloadedPieces: piece index -> buffer
    addCount,         \* calls of client.add so far
    fetchCount,       \* requests to the piece-fetch capability, per piece
    fetched,          \* pieces the capability has delivered successfully
    calls,            \* the getBytes calls: position and locals of each
    dataChunks,       \* the dataChunks arrays of the running calls
    buffers,          \* the output buffers allocated by the running calls
    options,          \* the options serve_data is set up with
    repo,             \* the archives serve_data.add has registered
    adds,             \* the serve_data.add calls: position of each
    req,              \* the tile requests the route is handling
    res,              \* the response the route has sent for each
    header,           \* what pmtiles.getHeader() resolves to
    metadata,         \* what getPMtilesInfo returns
    encoder,          \* the revision of the vector-tile encoder that runs
    tile,             \* the tile object handed to encodeVectorTile
    results,          \* what the encodeVectorTile calls so far produced
    contour,          \* the arguments of the serializeMVT call
    combine           \* the combineTiles call: position, slots, result

vars == <<rev, pieceLength, filePath, source, opened, fdOpen, closed, client,
          torrent, pieceSize, downloadedPieces, addCount, fetchCount, fetched,
          calls, dataChunks, buffers, options, repo, adds, req, res, header,
          metadata, encoder, tile, results, contour, combine>>

routeVars == <<options, repo, adds, req, res>>
infoVars == <<header, metadata>>
encodeVars == <<encoder, tile, results>>
terrainVars == <<contour, combine>>
envVars == <<rev, pieceLength>>
openVars == <<filePath, source, opened, fdOpen, closed>>
joinVars == <<torrent, pieceSize, addCount>>
pieceVars == <<downloadedPieces, fetchCount, fetched>>
adapterVars == <<envVars, openVars, client, joinVars, pieceVars, calls,
                 dataChunks, buffers>>

\* No request, no header and no tile yet.
NoRequest == [id |-> "none"]
\* The route follows two requests, enough for one to arrive while the
\* other waits for its source.
RouteSlots == {1, 2}
\* The files serve_data.add can be called for.
ArchiveIds == {"pm", "mb"}
\* repo = {}
NoRepo == [id \in {} |-> NoRequest]
\* options.pbfAlias
pbfAlias == "mvt"
DefaultOptions == [pbfAlias |-> pbfAlias, dataDecoratorFunc |-> "unset"]
NoResponse == [status |-> 0, body |-> "none", tile |-> << >>]
NoHeader == [tileType |-> 0]
NoMetadata == [format |-> "none"]
NoTile == [layers |-> << >>]
NoContour == [features |-> "none"]
NoCombine == [pc |-> "idle"]

PieceIds == 0..(ContentLen - 1)

\* What the piece-fetch capability delivers for piece i: the bytes
\* [i * pieceLength, (i + 1) * pieceLength) of the content, cut at its end.
Piece(i) ==
    SubSeq(Content, i * pieceLength + 1,
           Min((i + 1) * pieceLength, ContentLen))

\* The (offset, length) pairs of the getBytes calls: inside the content
\* for a torrent, and up to one byte past the end of the file for a file.
Ranges(kind) ==
    { r \in (0..ContentLen) \X (1..(ContentLen + 1)) :
        r[1] + r[2] <= ContentLen + (IF kind = "file" THEN 1 ELSE 0) }

\* The position pc of a call: "idle" before it is issued; "init",
\* "progress", "fetch" and "read" while the promise it awaits is pending;
\* "joined", "piece", "cached", "readDone" and "rejected" once that promise
\* has settled and the continuation of getBytes is queued; "ok" and "err"
\* when the promise of getBytes itself has settled. got is the value the
\* awaited _getPiece has resolved with.
IdleCall == [pc |-> "idle", offset |-> 0, length |-> 0, i |-> 0,
             combinedOffset |-> 0, sawFail |-> FALSE, afterDestroy |-> FALSE,
             overlapped |-> FALSE, error |-> "none", got |-> << >>,
             ret |-> << >>]

\* Call c has been issued and has not settled yet.
InFlight(c) == calls[c].pc \notin {"idle", "ok", "err"}

InitAdapter ==
    /\ rev \in Revisions
    /\ pieceLength \in PieceLengths
    /\ filePath = << >>
    /\ source = "none"
    /\ opened = FALSE
    /\ fdOpen = FALSE
    /\ closed = FALSE
    /\ client = "none"
    /\ torrent = FALSE
    /\ pieceSize = 0
    /\ downloadedPieces = << >>
    /\ addCount = 0
    /\ fetchCount = [i \in PieceIds |-> 0]
    /\ fetched = {}
    /\ calls = [c \in Calls |-> IdleCall]
    /\ dataChunks = [c \in Calls |-> << >>]
    /\ buffers = [c \in Calls |-> << >>]

IdleRequests ==
    /\ repo = NoRepo
    /\ adds = [id \in ArchiveIds |-> "none"]
    /\ req = [s \in RouteSlots |-> NoRequest]
    /\ res = [s \in RouteSlots |-> NoResponse]
IdleRoute == IdleRequests /\ options = DefaultOptions
IdleInfo == header = NoHeader /\ metadata = NoMetadata
IdleEncode == encoder = "vtpbf" /\ tile = NoTile /\ results = << >>
IdleTerrain == contour = NoContour /\ combine = NoCombine

Init == InitAdapter /\ IdleRoute /\ IdleInfo /\ IdleEncode /\ IdleTerrain

\* ------------------------------------------------- openPMtiles / close
\* The variant openPMtiles constructs for FilePath.
SourceKind(FilePath) ==
    IF magnetTester(FilePath) THEN "torrent"
    ELSE IF httpTester(FilePath) THEN "http"
    ELSE "file"

\* openPMtiles(FilePath); fs.openSync either returns a descriptor or throws.
openPMtiles(FilePath, openOk) ==
    /\ source = "none"
    /\ LET kind == SourceKind(FilePath)
       IN  /\ kind # "file" => openOk
           /\ filePath' = FilePath
           /\ source' = kind
           /\ opened' = (kind = "file" => openOk)
           /\ fdOpen' = (kind = "file" /\ openOk)
           /\ client' = IF kind = "torrent" THEN "live" ELSE client
    /\ UNCHANGED <<routeVars, infoVars, encodeVars, terrainVars>>
    /\ UNCHANGED <<envVars, closed, joinVars, pieceVars, calls, dataChunks,
                   buffers>>

\* typeof pmtiles._source.destroy === 'function': only the torrent source
\* defines destroy.
HasDestroy(kind) == kind = "torrent"

\* PMTilesWebTorrentSource.destroy: the value of this.client after it.
destroy(cl) == IF cl # "null" THEN "null" ELSE cl

\* closePMTiles(pmtiles)
closePMTiles ==
    /\ opened
    /\ ~closed
    /\ closed' = TRUE
    /\ client' = IF HasDestroy(source) THEN destroy(client) ELSE client
    /\ UNCHANGED <<routeVars, infoVars, encodeVars, terrainVars>>
    /\ UNCHANGED <<envVars, filePath, source, opened, fdOpen, joinVars,
                   pieceVars, calls, dataChunks, buffers>>

\* ------------------------------------------------- getBytes: the pieces
startPieceIndex(offset, ps) == offset \div ps
endPieceIndex(offset, length, ps) == (offset + length - 1) \div ps

chunkOffset(i, offset, ps) ==
    IF i = startPieceIndex(offset, ps) THEN offset % ps ELSE 0

\* Revision "adapter": the end index of the slice taken from piece i.
chunkLength(i, offset, length, ps, pieceBuffer) ==
    IF i = endPieceIndex(offset, length, ps)
    THEN LET m == (offset + length - 1) % ps
         IN  IF m = 0 THEN Len(pieceBuffer) ELSE m + 1
    ELSE Len(pieceBuffer)

\* Revision "part000": the number of bytes copied from piece i.
bytesToCopy(i, offset, length, ps, pieceBuffer) ==
    LET all == Len(pieceBuffer) - chunkOffset(i, offset, ps)
    IN  IF i = endPieceIndex(offset, length, ps)
        THEN Min(all, offset + length - (i * ps + chunkOffset(i, offset, ps)))
        ELSE all

\* Revision "part000": the loop over j writing n bytes of pieceBuffer, from
\* from, into buf at at. A Buffer ignores a write past its end and reads
\* undefined (stored as 0) past the end of pieceBuffer.
CopyBytes(buf, at, pieceBuffer, from, n) ==
    [k \in 1..Len(buf) |->
        IF k - 1 >= at /\ k - 1 < at + n
        THEN LET src == from + (k - 1 - at)
             IN  IF src < Len(pieceBuffer) THEN pieceBuffer[src + 1] ELSE 0
        ELSE buf[k]]

\* Revision "adapter": combinedBuffer.set(chunk, offsetInCombined) for every
\* chunk in order. TypedArray.prototype.set throws a RangeError when the
\* chunk does not fit.
RECURSIVE Combine(_, _, _, _)
Combine(chunks, k, buf, at) ==
    IF k > Len(chunks) THEN [ok |-> TRUE, data |-> buf]
    ELSE IF at + Len(chunks[k]) > Len(buf) THEN [ok |-> FALSE, data |-> << >>]
    ELSE Combine(chunks, k + 1,
                 CopyBytes(buf, at, chunks[k], 0, Len(chunks[k])),
                 at + Len(chunks[k]))

\* One scratch storage kept on the source and used by every call.
SharedScratch(c) == 1

\* The scratch storage (dataChunks, output buffer) a call works in: each
\* call allocates its own.
ScratchOf(c) == c

\* this.downloadedPieces.has(i), which only revision "adapter" consults.
CacheHit(i) == rev = "adapter" /\ i \in DOMAIN downloadedPieces

\* this._getPiece(i) called by call record cl: a cached piece is returned
\* (the promise of _getPiece is resolved with it at once), any other is
\* requested from the capability.
_getPiece(cl, i) ==
    [cl EXCEPT !.i = i,
               !.pc = IF CacheHit(i) THEN "cached" ELSE "fetch",
               !.got = IF CacheHit(i) THEN downloadedPieces[i] ELSE << >>]
CountFetch(i) ==
    IF CacheHit(i) THEN fetchCount ELSE [fetchCount EXCEPT ![i] = @ + 1]

\* A loop that carries on with the next piece instead.
MissingPieceSkipped(i) == "skip"

\* What getBytes does with a piece that came back without a buffer:
\* throw new Error(`Piece ${i} could not be retrieved`).
MissingPiece(i) == "throw"

\* getBytes from the check of this.pieceSize to the first _getPiece call.
EnterLoop(c, cl, ps) ==
    IF ps = 0
    THEN /\ calls' = [calls EXCEPT ![c] =
                        [cl EXCEPT !.pc = "err", !.error = "NoPieceSize"]]
         /\ UNCHANGED <<fetchCount, dataChunks, buffers>>
    ELSE LET first == startPieceIndex(cl.offset, ps)
         IN  /\ calls' = [calls EXCEPT ![c] = _getPiece(cl, first)]
             /\ fetchCount' = CountFetch(first)
             /\ dataChunks' = [dataChunks EXCEPT ![ScratchOf(c)] = << >>]
             /\ buffers' = [buffers EXCEPT ![ScratchOf(c)] =
                              IF rev = "part000" THEN Zeros(cl.length)
                              ELSE @]

\* The body of the for loop for piece calls[c].i once _getPiece has
\* resolved with pieceBuffer, up to the next await or the return.
AfterPiece(c, pieceBuffer, failed) ==
    LET cl == [calls[c] EXCEPT !.sawFail = @ \/ failed]
        i == cl.i
        ps == pieceSize
        last == i = endPieceIndex(cl.offset, cl.length, ps)
        slot == ScratchOf(c)
        missing == pieceBuffer = Null
        chunks == IF missing THEN dataChunks[slot]
                  ELSE Append(dataChunks[slot],
                         BufSlice(pieceBuffer, chunkOffset(i, cl.offset, ps),
                           chunkLength(i, cl.offset, cl.length, ps,
                                       pieceBuffer)))
        n == IF missing THEN 0
             ELSE bytesToCopy(i, cl.offset, cl.length, ps, pieceBuffer)
        buf == IF missing THEN buffers[slot]
               ELSE CopyBytes(buffers[slot], cl.combinedOffset, pieceBuffer,
                              chunkOffset(i, cl.offset, ps), n)
        combined == Combine(chunks, 1, Zeros(cl.length), 0)
    IN  IF missing /\ MissingPiece(i) = "throw"
        THEN /\ calls' = [calls EXCEPT ![c] =
                            [cl EXCEPT !.pc = "err", !.error = "PieceError"]]
             /\ UNCHANGED <<fetchCount, dataChunks, buffers>>
        ELSE /\ dataChunks' = IF rev = "adapter"
                              THEN [dataChunks EXCEPT ![slot] = chunks]
                              ELSE dataChunks
             /\ buffers' = IF rev = "part000"
                           THEN [buffers EXCEPT ![slot] = buf]
                           ELSE buffers
             /\ IF ~last
                THEN /\ calls' = [calls EXCEPT ![c] =
                          _getPiece([cl EXCEPT !.combinedOffset =
                                         @ + Max(n, 0)], i + 1)]
                     /\ fetchCount' = CountFetch(i + 1)
                ELSE /\ fetchCount' = fetchCount
                     /\ calls' = [calls EXCEPT ![c] =
                          IF rev = "part000"
                          THEN [cl EXCEPT !.pc = "ok", !.ret = buf]
                          ELSE IF combined.ok
                          THEN [cl EXCEPT !.pc = "ok", !.ret = combined.data]
                          ELSE [cl EXCEPT !.pc = "err",
                                          !.error = "RangeError"]]

\* ------------------------------------------------- getBytes: the actions
\* PMTilesFileSource.getBytes up to the await of readFileBytes: the buffer
\* is allocated and fs.read is issued.
FileGetBytes(c, cl) ==
    /\ calls' = [calls EXCEPT ![c] = [cl EXCEPT !.pc = "read"]]
    /\ buffers' = [buffers EXCEPT ![ScratchOf(c)] = Zeros(cl.length)]
    /\ UNCHANGED <<joinVars, fetchCount, dataChunks>>

\* PMTilesWebTorrentSource.init: this.client.add(...), which throws a
\* TypeError once destroy has set this.client to null; the promise of init
\* is then rejected and getBytes, which awaits it, is still pending.
init(c, cl) ==
    IF client = "null"
    THEN /\ calls' = [calls EXCEPT ![c] =
                        [cl EXCEPT !.pc = "rejected", !.error = "TypeError"]]
         /\ UNCHANGED addCount
    ELSE /\ calls' = [calls EXCEPT ![c] = [cl EXCEPT !.pc = "init"]]
         /\ addCount' = addCount + 1

\* PMTilesWebTorrentSource.getBytes up to its first await.
TorrentGetBytes(c, cl) ==
    IF ~torrent
    THEN /\ init(c, cl)
         /\ UNCHANGED <<torrent, pieceSize, fetchCount, dataChunks, buffers>>
    ELSE /\ EnterLoop(c, cl, pieceSize)
         /\ UNCHANGED joinVars

\* A caller invokes getBytes(offset, length) on the opened source. Calls are
\* numbered in the order they are issued.
getBytes(c, offset, length) ==
    /\ opened
    /\ source \in {"torrent", "file"}
    /\ calls[c].pc = "idle"
    /\ IF c = 1 THEN TRUE ELSE calls[c - 1].pc # "idle"
    /\ <<offset, length>> \in Ranges(source)
    /\ LET cl == [IdleCall EXCEPT !.offset = offset, !.length = length,
                                  !.afterDestroy = closed,
                                  !.overlapped = \E d \in Calls : InFlight(d)]
       IN  IF source = "file" THEN FileGetBytes(c, cl)
           ELSE TorrentGetBytes(c, cl)
    /\ UNCHANGED <<routeVars, infoVars, encodeVars, terrainVars>>
    /\ UNCHANGED <<envVars, openVars, client, downloadedPieces, fetched>>

\* The callback of client.add for the join of call c: this.torrent and
\* this.pieceSize are set. Revision "adapter" resolves the promise of init;
\* revision "part000" registers its listeners and waits for a download.
AddCallback(c) ==
    /\ calls[c].pc = "init"
    /\ client = "live"
    /\ torrent' = TRUE
    /\ pieceSize' = pieceLength
    /\ calls' = [calls EXCEPT ![c] =
                    [@ EXCEPT !.pc = IF rev = "adapter" THEN "joined"
                                     ELSE "progress"]]
    /\ UNCHANGED <<routeVars, infoVars, encodeVars, terrainVars>>
    /\ UNCHANGED <<envVars, openVars, client, addCount, pieceVars,
                   dataChunks, buffers>>

\* Revision "part000": a 'download' event with torrent.progress > 0 resolves
\* the promise of init.
onDownload(c) ==
    /\ calls[c].pc = "progress"
    /\ client = "live"
    /\ calls' = [calls EXCEPT ![c] = [@ EXCEPT !.pc = "joined"]]
    /\ UNCHANGED <<routeVars, infoVars, encodeVars, terrainVars>>
    /\ UNCHANGED <<envVars, openVars, client, joinVars, pieceVars,
                   dataChunks, buffers>>

\* Revision "part000": an 'error' event of the torrent rejects the promise
\* of init.
onError(c) ==
    /\ calls[c].pc = "progress"
    /\ calls' = [calls EXCEPT ![c] =
                    [@ EXCEPT !.pc = "rejected", !.error = "TorrentError"]]
    /\ UNCHANGED <<routeVars, infoVars, encodeVars, terrainVars>>
    /\ UNCHANGED <<envVars, openVars, client, joinVars, pieceVars,
                   dataChunks, buffers>>

\* getBytes resumes after `await this.init()`: the check of this.pieceSize
\* and the loop up to the first _getPiece call.
InitResolved(c) ==
    /\ calls[c].pc = "joined"
    /\ EnterLoop(c, calls[c], pieceSize)
    /\ UNCHANGED <<routeVars, infoVars, encodeVars, terrainVars>>
    /\ UNCHANGED <<envVars, openVars, client, joinVars, downloadedPieces,
                   fetched>>

\* The piece-fetch capability answers the request of call c: with the piece
\* ("data"), with an error ("error") or, the callback of revision "adapter",
\* with no buffer ("null"). A destroyed client delivers no data. Revision
\* "adapter" stores the buffer in this.downloadedPieces; the promise of
\* _getPiece is resolved with the buffer or rejected.
PieceArrives(c, outcome) ==
    /\ calls[c].pc = "fetch"
    /\ outcome = "data" => client = "live"
    /\ outcome = "null" => rev = "adapter"
    /\ LET i == calls[c].i
       IN  IF outcome = "error"
           THEN /\ calls' = [calls EXCEPT ![c] =
                       [@ EXCEPT !.pc = "rejected", !.error = "PieceError",
                                 !.sawFail = TRUE]]
                /\ UNCHANGED pieceVars
           ELSE LET pieceBuffer == IF outcome = "data" THEN Piece(i) ELSE Null
                IN  /\ downloadedPieces' =
                          IF rev = "adapter"
                          THEN [k \in DOMAIN downloadedPieces \cup {i} |->
                                  IF k = i THEN pieceBuffer
                                  ELSE downloadedPieces[k]]
                          ELSE downloadedPieces
                    /\ fetched' = IF outcome = "data" THEN fetched \cup {i}
                                  ELSE fetched
                    /\ fetchCount' = fetchCount
                    /\ calls' = [calls EXCEPT ![c] =
                                   [@ EXCEPT !.pc = "piece",
                                             !.got = pieceBuffer]]
    /\ UNCHANGED <<routeVars, infoVars, encodeVars, terrainVars>>
    /\ UNCHANGED <<envVars, openVars, client, joinVars, dataChunks, buffers>>

\* getBytes resumes after `await this._getPiece(i)` with the buffer the
\* capability delivered.
PieceResolved(c) ==
    /\ calls[c].pc = "piece"
    /\ AfterPiece(c, calls[c].got, calls[c].got = Null)
    /\ UNCHANGED <<routeVars, infoVars, encodeVars, terrainVars>>
    /\ UNCHANGED <<envVars, openVars, client, joinVars, downloadedPieces,
                   fetched>>

\* Revision "adapter": getBytes resumes after the await of a _getPiece that
\* found the piece in this.downloadedPieces.
CachedPiece(c) ==
    /\ calls[c].pc = "cached"
    /\ AfterPiece(c, calls[c].got, calls[c].got = Null)
    /\ UNCHANGED <<routeVars, infoVars, encodeVars, terrainVars>>
    /\ UNCHANGED <<envVars, openVars, client, joinVars, downloadedPieces,
                   fetched>>

\* The number of bytes fs.read transfers: up to the end of the file.
bytesRead(offset, length) == Max(0, Min(length, ContentLen - offset))

\* The callback of fs.read for call c, after the bytes read have been put
\* into the buffer: readFileBytes resolves (err unset) or rejects.
ReadCallback(c, ok) ==
    /\ calls[c].pc = "read"
    /\ LET cl == calls[c]
           slot == ScratchOf(c)
           n == bytesRead(cl.offset, cl.length)
           buf == [k \in 1..Len(buffers[slot]) |->
                     IF k <= n THEN Content[cl.offset + k]
                     ELSE buffers[slot][k]]
       IN  IF ok
           THEN /\ buffers' = [buffers EXCEPT ![slot] = buf]
                /\ calls' = [calls EXCEPT ![c] = [cl EXCEPT !.pc = "readDone"]]
           ELSE /\ buffers' = buffers
                /\ calls' = [calls EXCEPT ![c] =
                               [cl EXCEPT !.pc = "rejected",
                                          !.error = "ReadError"]]
    /\ UNCHANGED <<routeVars, infoVars, encodeVars, terrainVars>>
    /\ UNCHANGED <<envVars, openVars, client, joinVars, pieceVars, dataChunks>>

\* PMTilesFileSource.getBytes resumes after `await readFileBytes(...)` and
\* returns the whole buffer, whatever was read.
ReadResolved(c) ==
    /\ calls[c].pc = "readDone"
    /\ calls' = [calls EXCEPT ![c] =
                    [@ EXCEPT !.pc = "ok", !.ret = buffers[ScratchOf(c)]]]
    /\ UNCHANGED <<routeVars, infoVars, encodeVars, terrainVars>>
    /\ UNCHANGED <<envVars, openVars, client, joinVars, pieceVars, dataChunks,
                   buffers>>

\* getBytes resumes after an await whose promise was rejected (init,
\* _getPiece or readFileBytes): the error is thrown on and the promise of
\* getBytes is rejected with it.
Rejected(c) ==
    /\ calls[c].pc = "rejected"
    /\ calls' = [calls EXCEPT ![c] = [@ EXCEPT !.pc = "err"]]
    /\ UNCHANGED <<routeVars, infoVars, encodeVars, terrainVars>>
    /\ UNCHANGED <<envVars, openVars, client, joinVars, pieceVars, dataChunks,
                   buffers>>

\* A continuation of call c that is queued: the promise it awaits has
\* settled.
Resumes(c) ==
    \/ InitResolved(c)
    \/ PieceResolved(c)
    \/ CachedPiece(c)
    \/ ReadResolved(c)
    \/ Rejected(c)

\* ---------------------------------------------------- specifications
Next ==
    \/ source = "none" /\ \E p \in SampleIds, ok \in BOOLEAN :
                             openPMtiles(p, ok)
    \/ closePMTiles
    \/ \E c \in Calls, r \in Ranges(source) : getBytes(c, r[1], r[2])
    \/ \E c \in Calls : AddCallback(c)
    \/ \E c \in Calls : onDownload(c)
    \/ \E c \in Calls : onError(c)
    \/ \E c \in Calls, o \in {"data", "error", "null"} : PieceArrives(c, o)
    \/ \E c \in Calls, ok \in BOOLEAN : ReadCallback(c, ok)
    \/ \E c \in Calls : InitResolved(c)
    \/ \E c \in Calls : PieceResolved(c)
    \/ \E c \in Calls : CachedPiece(c)
    \/ \E c \in Calls : ReadResolved(c)
    \/ \E c \in Calls : Rejected(c)

Spec == Init /\ [][Next]_vars

\* The event loop runs every continuation whose promise has settled; what
\* the swarm, the disk and the callers do is up to them, and no timer is
\* armed anywhere in either revision.
FairSpec == Spec /\ WF_vars(\E c \in Calls : Resumes(c))

\* Source selection alone, over the identifiers of Identifiers.
NextSelect ==
    \/ source = "none" /\ \E p \in Identifiers, ok \in BOOLEAN :
                             openPMtiles(p, ok)
    \/ closePMTiles

InitSelect == Init /\ pieceLength = 2

SpecSelect == InitSelect /\ [][NextSelect]_vars

\* ------------------------------------------------------------- claims
\* The bytes C[offset : offset + length] of the content.
Expected(offset, length) == SubSeq(Content, offset + 1, offset + length)

Settled(c) == calls[c].pc \in {"ok", "err"}
PiecesSpanned(c) ==
    endPieceIndex(calls[c].offset, calls[c].length, pieceLength)
      - startPieceIndex(calls[c].offset, pieceLength) + 1

\* C1: with every piece available, a torrent getBytes(offset, length) with
\* offset + length <= |C| returns exactly C[offset : offset + length]: a
\* settled call that met no swarm, piece or client failure has succeeded
\* with those bytes.
C1_PieceStitching ==
    \A c \in Calls :
        (source = "torrent" /\ Settled(c)
           /\ calls[c].error \notin {"PieceError", "TypeError", "TorrentError"})
        => (calls[c].pc = "ok"
              /\ calls[c].ret = Expected(calls[c].offset, calls[c].length))

\* C1 in revision "part000" alone: the min-based copy stitches every range.
C1_WitnessStitched ==
    \E c \in Calls :
        /\ source = "torrent" /\ rev = "part000" /\ calls[c].pc = "ok"
        /\ PiecesSpanned(c) >= 3
        /\ calls[c].ret = Expected(calls[c].offset, calls[c].length)

\* C2: a file getBytes that succeeds returns exactly the length bytes of the
\* file at [offset, offset + length), so the range lies inside the file.
C2_FileExactOrFail ==
    \A c \in Calls :
        (source = "file" /\ calls[c].pc = "ok")
        => (calls[c].offset + calls[c].length <= ContentLen
              /\ calls[c].ret = Expected(calls[c].offset, calls[c].length))

\* C3: whatever the interleaving of the getBytes calls, client.add is called
\* at most once on a source.
C3_JoinOnce == addCount <= 1

\* C4: every call waiting in init (for the add callback or for download
\* progress) eventually leaves it, resolved or rejected.
C4_InitCompletes ==
    \A c \in Calls :
        (calls[c].pc \in {"init", "progress"})
          ~> (calls[c].pc \notin {"init", "progress"})

\* C5: a getBytes call issued after destroy() never returns data.
C5_FailsAfterDestroy ==
    \A c \in Calls :
        (source = "torrent" /\ calls[c].afterDestroy) => calls[c].pc # "ok"

\* C6: a getBytes call one of whose pieces could not be retrieved (the fetch
\* failed or yielded no buffer) never returns a buffer.
C6_NoPartialResult ==
    \A c \in Calls : calls[c].sawFail => calls[c].pc # "ok"

\* C6 happens: a call failed on a piece after an earlier piece of its range
\* had been retrieved and consumed.
C6_Witness ==
    \E c \in Calls :
        /\ calls[c].sawFail /\ calls[c].pc = "err"
        /\ calls[c].i > startPieceIndex(calls[c].offset, pieceLength)

\* What getBytes(offset, length) returns when it runs alone and every piece
\* or read is delivered: the sequential run of the loop of each revision.
RECURSIVE SoloChunks(_, _, _)
SoloChunks(offset, length, i) ==
    IF i > endPieceIndex(offset, length, pieceLength) THEN << >>
    ELSE << BufSlice(Piece(i), chunkOffset(i, offset, pieceLength),
                     chunkLength(i, offset, length, pieceLength, Piece(i))) >>
         \o SoloChunks(offset, length, i + 1)
RECURSIVE SoloCopy(_, _, _, _, _)
SoloCopy(offset, length, i, buf, at) ==
    IF i > endPieceIndex(offset, length, pieceLength) THEN buf
    ELSE LET n == bytesToCopy(i, offset, length, pieceLength, Piece(i))
         IN  SoloCopy(offset, length, i + 1,
                      CopyBytes(buf, at, Piece(i),
                                chunkOffset(i, offset, pieceLength), n),
                      at + Max(n, 0))
Solo(offset, length) ==
    IF source = "file"
    THEN [ok |-> TRUE,
          data |-> [k \in 1..length |->
                      IF offset + k <= ContentLen THEN Content[offset + k]
                      ELSE 0]]
    ELSE IF rev = "adapter"
    THEN Combine(SoloChunks(offset, length,
                            startPieceIndex(offset, pieceLength)),
                 1, Zeros(length), 0)
    ELSE [ok |-> TRUE,
          data |-> SoloCopy(offset, length,
                            startPieceIndex(offset, pieceLength),
                            Zeros(length), 0)]

\* C7: under every interleaving of the getBytes calls on one file or torrent
\* source, a call that returns returns the bytes it returns when run alone,
\* and a call that fails while stitching also fails when run alone.
C7_CallsIndependent ==
    \A c \in Calls :
        /\ calls[c].pc = "ok"
             => /\ Solo(calls[c].offset, calls[c].length).ok
                /\ calls[c].ret = Solo(calls[c].offset, calls[c].length).data
        /\ (calls[c].pc = "err" /\ calls[c].error = "RangeError")
             => ~Solo(calls[c].offset, calls[c].length).ok

\* C7 happens: two calls on different ranges overlapped in time and both
\* returned.
C7_Witness ==
    /\ calls[1].pc = "ok" /\ calls[2].pc = "ok"
    /\ calls[2].overlapped
    /\ calls[1].offset # calls[2].offset
    /\ calls[1].length > 1 /\ calls[2].length > 1

\* C8: a piece that has been fetched successfully stays in the source's
\* cache with its bytes and is never requested from the capability again.
C8_CacheRetention ==
    [][ /\ \A i \in fetched' :
              /\ i \in DOMAIN downloadedPieces'
              /\ downloadedPieces'[i] = Piece(i)
        /\ \A i \in fetched : fetchCount'[i] = fetchCount[i] ]_vars

\* C9: once closePMTiles has been called, the descriptor of a file source is
\* closed and the client of a torrent source is torn down.
C9_ReleasedOnClose == closed => (~fdOpen /\ client # "live")

\* C10 as claimed: the grammar
\* ^magnet:\?xt=urn:btih:[A-Za-z0-9]+(&[A-Za-z0-9]+=[A-Za-z0-9%.:/_-]+)*$
\* and ^https?://, both read as written (case-sensitive).
IsAlnum(ch) == IsWordChar(ch) /\ ch # "_"
ClaimedStep(q, ch) ==
    CASE q = "hash0" -> IF IsAlnum(ch) THEN "hash" ELSE "dead"
      [] q = "hash"  -> IF IsAlnum(ch) THEN "hash"
                        ELSE IF ch = "&" THEN "key0" ELSE "dead"
      [] q = "key0"  -> IF IsAlnum(ch) THEN "key" ELSE "dead"
      [] q = "key"   -> IF IsAlnum(ch) THEN "key"
                        ELSE IF ch = "=" THEN "val0" ELSE "dead"
      [] q = "val0"  -> IF IsValueChar(ch) THEN "val" ELSE "dead"
      [] q = "val"   -> IF IsValueChar(ch) THEN "val"
                        ELSE IF ch = "&" THEN "key0" ELSE "dead"
      [] OTHER       -> "dead"
RECURSIVE ClaimedRun(_, _, _)
ClaimedRun(s, k, q) ==
    IF k > Len(s) THEN q \in {"hash", "val"}
    ELSE ClaimedRun(s, k + 1, ClaimedStep(q, s[k]))
ClaimedMagnet(s) ==
    HasPrefix(s, MagnetPrefix) /\ ClaimedRun(s, Len(MagnetPrefix) + 1, "hash0")
ClaimedHttp(s) == HasPrefix(s, HttpPrefix) \/ HasPrefix(s, HttpsPrefix)

\* C10 (as claimed): the torrent source exactly for the strings of the
\* claimed magnet grammar, the HTTP source exactly for those matching
\* ^https?://, the file source for every other string.
C10_SelectionAsClaimed ==
    source # "none" =>
        /\ source = "torrent" <=> ClaimedMagnet(filePath)
        /\ source = "http" <=> ClaimedHttp(filePath)
        /\ source = "file" <=>
             (~ClaimedMagnet(filePath) /\ ~ClaimedHttp(filePath))

\* The magnet identifiers, described position by position: after the
\* prefix "magnet:?xt=urn:btih:" in any letter case comes a non-empty rest
\* that starts with a word character (letter, digit or underscore) and
\* in which every "&" is followed by a word character, every "=" comes
\* after some "&" and is followed by a value character, and a character
\* that is neither a word character nor a separator is one of % . : / -
\* and belongs to a value (the separator before it is "=").
IsSeparator(ch) == ch \in {"&", "="}
LastSeparator(r, k) ==
    LET before == {j \in 1..(k - 1) : IsSeparator(r[j])}
    IN  IF before = {} THEN "" ELSE r[CHOOSE j \in before :
                                       \A m \in before : m <= j]
AmendedMagnet(s) ==
    /\ Len(s) > Len(MagnetPrefix)
    /\ LowerAll(SubSeq(s, 1, Len(MagnetPrefix))) = MagnetPrefix
    /\ LET r == SubSeq(s, Len(MagnetPrefix) + 1, Len(s))
       IN  /\ IsWordChar(r[1])
           /\ \A k \in 1..Len(r) :
                 CASE r[k] = "&" -> k < Len(r) /\ IsWordChar(r[k + 1])
                   [] r[k] = "=" -> /\ k < Len(r) /\ IsValueChar(r[k + 1])
                                    /\ LastSeparator(r, k) # ""
                   [] IsWordChar(r[k]) -> TRUE
                   [] OTHER -> IsValueChar(r[k]) /\ LastSeparator(r, k) = "="
AmendedHttp(s) ==
    \E n \in {Len(HttpPrefix), Len(HttpsPrefix)} :
        /\ Len(s) >= n
        /\ LowerAll(SubSeq(s, 1, n)) \in {HttpPrefix, HttpsPrefix}

\* C10 (amended): openPMtiles picks the torrent source exactly for the
\* strings matching, in any letter case,
\* ^magnet:\?xt=urn:btih:\w+(&\w+(=[\w%.:/-]+)*)*$, the HTTP source exactly
\* for those matching ^https?:// in any letter case, and the file source for
\* every other string.
C10_Selection ==
    source # "none" =>
        /\ source = "torrent" <=> AmendedMagnet(filePath)
        /\ source = "http" <=> AmendedHttp(filePath)
        /\ source = "file" <=>
             (~AmendedMagnet(filePath) /\ ~AmendedHttp(filePath))

\* C10 happens: the torrent source was picked for an identifier outside the
\* claimed grammar whose last parameter has no value.
C10_Witness ==
    /\ source = "torrent"
    /\ ~ClaimedMagnet(filePath)
    /\ \E k \in 1..Len(filePath) :
          /\ filePath[k] = "&"
          /\ \A j \in (k + 1)..Len(filePath) : IsWordChar(filePath[j])


\* =====================================================================
\* serve_data: the tile route  /:id/:z(\d+)/:x(\d+)/:y(\d+).:format
\* =====================================================================
MaxParam == 4

\* A :z, :x or :y parameter matches \d+, a decimal numeral of any length.
\* The number it denotes is written in base 2^16 as hi * 2^16 + lo.
WordBase == 2^16
Numerals ==
    [hi : {0, WordBase \div 2, WordBase}, lo : 0..MaxParam]

\* req.params.z | 0: the number reduced modulo 2^32 into [-2^31, 2^31).
ToInt32(p) ==
    LET h == p.hi % WordBase
    IN  IF h >= WordBase \div 2
        THEN (h - WordBase) * WordBase + p.lo
        ELSE h * WordBase + p.lo

Formats == {"pbf", "mvt", "geojson", "png"}

\* The archive files on disk: what GetPMtilesInfo / source.getInfo report
\* of each and the tiles it holds.
Archives ==
    [pm |-> [extension |-> "pmtiles", minzoom |-> 0, maxzoom |-> 2,
             tiles |-> {<<0, 0, 0>>, <<1, 1, 0>>, <<2, 3, 3>>}],
     mb |-> [extension |-> "mbtiles", minzoom |-> 1, maxzoom |-> 2,
             tiles |-> {<<1, 0, 0>>, <<1, 1, 1>>, <<2, 0, 3>>}]]
Ids == {"pm", "mb", "nosuch"}

\* options.dataDecoratorFunc is set or not; a decorator that is set gives
\* back the tileJSON it is handed.
OptionSets ==
    { [pbfAlias |-> pbfAlias, dataDecoratorFunc |-> d] :
        d \in {"unset", "set"} }
dataDecoratorFunc(tileJSON) == tileJSON

\* The tileJSON serve_data.add builds for the archive file id.
TileJSONOf(id) ==
    LET tileJSON == [format |-> "pbf",
                     extension |-> Archives[id].extension,
                     minzoom |-> Archives[id].minzoom,
                     maxzoom |-> Archives[id].maxzoom]
    IN  IF options.dataDecoratorFunc = "set"
        THEN dataDecoratorFunc(tileJSON) ELSE tileJSON

\* repo[id] = { tileJSON, publicUrl, source }
ItemOf(id) == [tileJSON |-> TileJSONOf(id), source |-> id]
\* const item = repo[req.params.id] of an id the repo does not hold.
NoItem ==
    [tileJSON |-> [format |-> "none", extension |-> "none", minzoom |-> 0,
                   maxzoom |-> 0],
     source |-> "none"]

\* serve_data.add up to its await: the file is there and not empty, and
\* GetPMtilesInfo or new MBTiles is under way.
add(id) ==
    /\ adds[id] = "none"
    /\ adds' = [adds EXCEPT ![id] = "info"]
    /\ UNCHANGED <<options, repo, req, res>>
    /\ UNCHANGED <<adapterVars, infoVars, encodeVars, terrainVars>>

\* The rest of serve_data.add: the info has arrived and repo[id] is
\* assigned, or the promise was rejected and add throws.
addSettled(id, ok) ==
    /\ adds[id] = "info"
    /\ IF ok
       THEN /\ repo' = [i \in DOMAIN repo \cup {id} |->
                          IF i = id THEN ItemOf(id) ELSE repo[i]]
            /\ adds' = [adds EXCEPT ![id] = "done"]
       ELSE /\ repo' = repo
            /\ adds' = [adds EXCEPT ![id] = "threw"]
    /\ UNCHANGED <<options, req, res>>
    /\ UNCHANGED <<adapterVars, infoVars, encodeVars, terrainVars>>

Send(status, body) == [status |-> status, body |-> body, tile |-> << >>]
SendTile(z, x, y) == [status |-> 200, body |-> "data", tile |-> <<z, x, y>>]

\* The checks of the route before it asks the source: "pass", or the
\* response of the early return.
Precheck(R) ==
    IF R.item = NoItem THEN Send(404, "Not Found")
    ELSE
      LET item == R.item
          tileJSONFormat == item.tileJSON.format
          z == ToInt32(R.z)
          x == ToInt32(R.x)
          y == ToInt32(R.y)
          format == IF R.format = options.pbfAlias THEN "pbf" ELSE R.format
      IN  IF /\ format # tileJSONFormat
             /\ ~(format = "geojson" /\ tileJSONFormat = "pbf")
          THEN Send(404, "Invalid format")
          ELSE IF \/ z < item.tileJSON.minzoom
                  \/ x < 0
                  \/ y < 0
                  \/ z > item.tileJSON.maxzoom
                  \/ x >= 2^z
                  \/ y >= 2^z
          THEN Send(404, "Out of bounds")
          ELSE Send(0, "pass")

Passes(R) == Precheck(R).body = "pass"

\* What the source can answer for the tile the route asks it for: the
\* tile, nothing (pmtiles: getZxy resolves to undefined; mbtiles: the error
\* 'Tile does not exist'), a row without data, or a failure of the read.
SourceAnswers(R) ==
    IF ~Passes(R) THEN {"unasked"}
    ELSE LET t == <<ToInt32(R.z), ToInt32(R.x), ToInt32(R.y)>>
         IN  IF t \in Archives[R.item.source].tiles THEN {"data", "failure"}
             ELSE IF R.item.tileJSON.extension = "mbtiles"
                  THEN {"missing", "null", "failure"}
                  ELSE {"missing", "failure"}

\* getPMtilesTile: data is the tile, or undefined when getZxy finds none.
getPMtilesTile(R) == IF R.answer = "data" THEN "data" ELSE "undefined"

\* options.dataDecoratorFunc(id, 'data', data, z, x, y) names a variable
\* id that the handler does not have: a ReferenceError, thrown when the
\* archive serves pbf and the option is set.
Decorates(R) ==
    R.item.tileJSON.format = "pbf" /\ options.dataDecoratorFunc = "set"

\* The response of the route handler to request R once its source has
\* answered; status 0 stands for no response.
Respond(R) ==
    IF ~Passes(R) THEN Precheck(R)
    ELSE
      LET z == ToInt32(R.z)
          x == ToInt32(R.x)
          y == ToInt32(R.y)
      IN  IF R.item.tileJSON.extension = "pmtiles"
          THEN IF R.answer = "failure" THEN Send(0, "unhandled rejection")
               ELSE IF getPMtilesTile(R) = "undefined"
                    THEN Send(404, "Not found")
                    ELSE IF Decorates(R)
                    THEN Send(0, "unhandled rejection")
                    ELSE SendTile(z, x, y)
          ELSE IF R.answer = "missing" THEN Send(204, "")
               ELSE IF R.answer = "failure" THEN Send(500, "err.message")
               ELSE IF R.answer = "null" THEN Send(404, "Not found")
               ELSE IF Decorates(R) THEN Send(0, "uncaught exception")
               ELSE SendTile(z, x, y)

\* The request as the handler holds it: the parameters and the item it
\* has read from the repo on arrival.
Request(id, z, x, y, format, answer) ==
    [id |-> id, z |-> z, x |-> x, y |-> y, format |-> format,
     item |-> IF id \in DOMAIN repo THEN repo[id] ELSE NoItem,
     answer |-> answer]

\* The handler from the arrival of a request to its first return: the
\* response of an early return, or the call of GetPMtilesTile or of
\* source.getTile, whose answer is pending.
tileRoute(s, id, z, x, y, format) ==
    /\ req[s] = NoRequest
    /\ IF Passes(Request(id, z, x, y, format, "pending"))
       THEN /\ req' = [req EXCEPT
                         ![s] = Request(id, z, x, y, format, "pending")]
            /\ res' = res
       ELSE /\ req' = [req EXCEPT
                         ![s] = Request(id, z, x, y, format, "unasked")]
            /\ res' = [res EXCEPT
                         ![s] = Precheck(Request(id, z, x, y, format,
                                                 "unasked"))]
    /\ UNCHANGED <<options, repo, adds>>
    /\ UNCHANGED <<adapterVars, infoVars, encodeVars, terrainVars>>

\* The handler after await GetPMtilesTile, or the callback of
\* source.getTile: the source has answered and the response is sent.
tileAnswered(s, answer) ==
    /\ req[s] # NoRequest
    /\ req[s].answer = "pending"
    /\ answer \in SourceAnswers(req[s])
    /\ req' = [req EXCEPT ![s].answer = answer]
    /\ res' = [res EXCEPT ![s] = Respond([req[s] EXCEPT !.answer = answer])]
    /\ UNCHANGED <<options, repo, adds>>
    /\ UNCHANGED <<adapterVars, infoVars, encodeVars, terrainVars>>

AllAnswers == {"unasked", "data", "missing", "null", "failure"}

\* The requests that come in while another request waits for its source.
SecondRequests ==
    { <<"pm", [hi |-> 0, lo |-> 3], [hi |-> 0, lo |-> 0],
        [hi |-> 0, lo |-> 0], "pbf">>,
      <<"pm", [hi |-> 0, lo |-> 0], [hi |-> 0, lo |-> 0],
        [hi |-> 0, lo |-> 0], "pbf">>,
      <<"mb", [hi |-> 0, lo |-> 1], [hi |-> 0, lo |-> 0],
        [hi |-> 0, lo |-> 0], "mvt">> }

\* Archives are added, one request of any shape is followed from its
\* arrival to its response, and while it waits a second one comes in.
NextRoute ==
    \/ \E id \in ArchiveIds : add(id)
    \/ \E id \in ArchiveIds, ok \in BOOLEAN : addSettled(id, ok)
    \/ /\ req[1] = NoRequest
       /\ \E id \in Ids, z \in Numerals, x \in Numerals, y \in Numerals,
             format \in Formats : tileRoute(1, id, z, x, y, format)
    \/ /\ req[1] # NoRequest /\ req[1].answer = "pending"
       /\ \E r \in SecondRequests :
             tileRoute(2, r[1], r[2], r[3], r[4], r[5])
    \/ \E s \in RouteSlots, answer \in AllAnswers : tileAnswered(s, answer)

InitRoute ==
    /\ InitAdapter /\ rev = "adapter" /\ pieceLength = 2
    /\ IdleRequests /\ options \in OptionSets
    /\ IdleInfo /\ IdleEncode /\ IdleTerrain

SpecRoute == InitRoute /\ [][NextRoute]_vars

\* The request names an archive of the repo in a format the archive serves.
WellFormed(R) ==
    /\ R.item # NoItem
    /\ Precheck(R).body # "Invalid format"

\* The number a numeral denotes is below n (n at most 2^16).
Below(p, n) == p.hi = 0 /\ p.lo < n

\* z, x, y as the numbers the request carries are outside the archive's
\* zoom range or outside [0, 2^z).
OutOfRange(R) ==
    LET t == R.item.tileJSON
    IN  \/ Below(R.z, t.minzoom)
        \/ ~Below(R.z, t.maxzoom + 1)
        \/ ~Below(R.x, 2^R.z.lo)
        \/ ~Below(R.y, 2^R.z.lo)

\* The route has answered the request of slot s, or the request has
\* ended without a response.
Answered(s) == req[s] # NoRequest /\ req[s].answer # "pending"

\* C11: a request outside the zoom range or outside [0, 2^z) is answered
\* with the out-of-range signal and never with tile data; a request inside
\* the range whose tile is missing from the archive is answered with the
\* empty non-error "no content" result, for pmtiles and mbtiles alike.
C11_OutOfRangeVsAbsent ==
    \A s \in RouteSlots :
        (Answered(s) /\ WellFormed(req[s])) =>
            /\ OutOfRange(req[s]) => res[s] = Send(404, "Out of bounds")
            /\ (~OutOfRange(req[s]) /\ req[s].answer = "missing") =>
                   res[s] = Send(204, "")

\* An x that is 2^32 too large is served the tile of x - 2^32.
C11_WitnessWrapped ==
    /\ Answered(1) /\ WellFormed(req[1])
    /\ OutOfRange(req[1])
    /\ res[1].status = 200


\* =====================================================================
\* getPMtilesInfo: metadata completed from the archive header
\* =====================================================================
MaxZoomLevel == 3

\* A number of the header or the metadata, written as a decimal: sign,
\* integer part and the digits after the point ("" for an integer).
Dec(neg, int, frac) ==
    [type |-> "number", neg |-> neg, int |-> int, frac |-> frac]
Whole(n) == Dec(n < 0, IF n < 0 THEN -n ELSE n, "")
Undefined == [type |-> "undefined", neg |-> FALSE, int |-> 0, frac |-> ""]

\* A test for presence alone, which would let a zero bound through.
DefinedOnly(v) == v.type # "undefined"
\* JavaScript truthiness of a header value: a number other than 0.
Truthy(v) == v.type = "number" /\ ~(v.int = 0 /\ v.frac = "")

\* parseInt(m) / 2 for a whole number m >= 0.
HalfOf(m) == Dec(FALSE, m.int \div 2, IF m.int % 2 = 1 THEN "5" ELSE "")

WorldBounds ==
    << Dec(TRUE, 180, ""), Dec(TRUE, 85, "05112877980659"),
       Dec(FALSE, 180, ""), Dec(FALSE, 85, "0511287798066") >>

\* getPmtilesTileType(typenum).type
getPmtilesTileType(typenum) ==
    CASE typenum = 0 -> "Unknown"
      [] typenum = 1 -> "pbf"
      [] typenum = 2 -> "png"
      [] typenum = 3 -> "jpeg"
      [] typenum = 4 -> "webp"
      [] typenum = 5 -> "avif"
      [] OTHER -> "undefined"

\* The headers getHeader may resolve to.
Coords(nonzero) == {Undefined, Whole(0), Whole(nonzero)}
Headers ==
    [tileType : {1, 2},
     minZoom : {Whole(0)},
     maxZoom : {Whole(m) : m \in 0..MaxZoomLevel},
     minLon : Coords(-10), minLat : Coords(-20),
     maxLon : Coords(30), maxLat : Coords(40),
     centerLon : {Whole(10)}, centerLat : {Whole(0), Whole(10)},
     centerZoom : {Whole(0), Whole(2)}]

boundsOf(h) ==
    IF Truthy(h.minLon) /\ Truthy(h.minLat) /\ Truthy(h.maxLon)
         /\ Truthy(h.maxLat)
    THEN <<h.minLon, h.minLat, h.maxLon, h.maxLat>>
    ELSE WorldBounds

centerOf(h, maxzoom) ==
    IF Truthy(h.centerZoom)
    THEN <<h.centerLon, h.centerLat, h.centerZoom>>
    ELSE <<h.centerLon, h.centerLat, HalfOf(maxzoom)>>

getPMtilesInfo ==
    /\ header # NoHeader
    /\ metadata = NoMetadata
    /\ metadata' = [format |-> getPmtilesTileType(header.tileType),
                    minzoom |-> header.minZoom,
                    maxzoom |-> header.maxZoom,
                    bounds |-> boundsOf(header),
                    center |-> centerOf(header, header.maxZoom)]
    /\ UNCHANGED <<adapterVars, routeVars, encodeVars, terrainVars, header>>

NextInfo == getPMtilesInfo

InitInfo ==
    /\ InitAdapter /\ rev = "adapter" /\ pieceLength = 2
    /\ IdleRoute /\ IdleEncode /\ IdleTerrain
    /\ header \in Headers
    /\ metadata = NoMetadata

SpecInfo == InitInfo /\ [][NextInfo]_vars

Returned == metadata # NoMetadata

\* The header field is present and is not zero.
PresentNonZero(v) == v.type = "number" /\ v # Whole(0)
HeaderBounds == <<header.minLon, header.minLat, header.maxLon, header.maxLat>>

\* C12: getPMtilesInfo returns the header's [minLon, minLat, maxLon,
\* maxLat] when all four are present and non-zero, and otherwise exactly
\* [-180, -85.05112877980659, 180, 85.0511287798066]; the result always
\* has four elements.
C12_BoundsDefault ==
    Returned =>
        /\ Len(metadata.bounds) = 4
        /\ metadata.bounds =
             IF \A k \in 1..4 : PresentNonZero(HeaderBounds[k])
             THEN HeaderBounds
             ELSE WorldBounds

\* A header whose only zero bound is minLat got the default bounds.
C12_Witness ==
    /\ Returned
    /\ header.minLat = Whole(0)
    /\ \A k \in {1, 3, 4} : PresentNonZero(HeaderBounds[k])
    /\ metadata.bounds = WorldBounds

\* C13: when the header has no center-zoom value, the zoom component of
\* the returned center is floor(maxzoom / 2), for odd and even maxzoom.
C13_CenterZoomFloor ==
    (Returned /\ ~PresentNonZero(header.centerZoom)) =>
        metadata.center[3] = Whole(header.maxZoom.int \div 2)

\* An odd maxzoom without center zoom has been answered with a half.
C13_WitnessHalf ==
    /\ Returned
    /\ ~PresentNonZero(header.centerZoom)
    /\ header.maxZoom = Whole(3)
    /\ metadata.center[3] = Dec(FALSE, 1, "5")


\* =====================================================================
\* encodeVectorTile: the vector-tile encoder
\* =====================================================================
Encoders == {"vtpbf", "terrain"}

\* GeomType
UNKNOWN == 0
POINT == 1
LINESTRING == 2
POLYGON == 3

\* ------------------------------------------------ 32-bit integer words
\* The bitwise operators of JavaScript work on 32-bit two's complement
\* integers, here the integers of [-2^31, 2^31).
MinInt32 == -(2^30) - 2^30
MaxInt32 == (2^30 - 1) + 2^30

\* Bit k (0..30) of n; bit 31 is the sign.
BitOf(n, k) == (n \div 2^k) % 2

\* num << 1
ShiftLeft1(n) ==
    2 * (n % 2^30) + (IF BitOf(n, 30) = 1 THEN MinInt32 ELSE 0)

\* A logical shift in place of the arithmetic one: 1 for a negative number.
SignBit(n) == IF n < 0 THEN 1 ELSE 0
\* num >> 31: the sign bit copied into every position.
SignFill(n) == IF n < 0 THEN -1 ELSE 0

RECURSIVE XorLow(_, _, _)
\* The lowest k bits of a ^ b, bit by bit from the lowest one; a \div 2
\* shifts a two's complement number right.  Equal rests give zeros, the
\* rests 0 and -1 give ones.
XorLow(a, b, k) ==
    IF k = 0 \/ a = b THEN 0
    ELSE IF {a, b} = {0, -1} THEN (2^(k - 1) - 1) + 2^(k - 1)
    ELSE (IF a % 2 # b % 2 THEN 1 ELSE 0)
           + 2 * XorLow(a \div 2, b \div 2, k - 1)

\* a ^ b: the 31 low bits and the sign bit.
Xor32(a, b) ==
    XorLow(a, b, 31) + (IF (a < 0) # (b < 0) THEN MinInt32 ELSE 0)

\* zigzag(num) = (num << 1) ^ (num >> 31)
zigzag(num) == Xor32(ShiftLeft1(num), SignFill(num))

\* length << 3 for a length given in halves (length = halves / 2): the
\* shift drops the fraction first.
ShiftLeft3(halves) ==
    8 * (IF halves >= 0 THEN halves \div 2 ELSE -((-halves) \div 2))

\* command(cmd, length) = (length << 3) + (cmd & 0x7)
command(cmd, halves) == ShiftLeft3(halves) + (cmd % 8)

\* ------------------------------------------------------ property values
\* A property value: its typeof, its text as a template renders it, and
\* for a number whether it is negative and whether it is whole.
Value(type, val, neg, whole) ==
    [type |-> type, val |-> val, neg |-> neg, whole |-> whole]
Number(val, neg, whole) == Value("number", val, neg, whole)
String(val) == Value("string", val, FALSE, TRUE)
Boolean(val) == Value("boolean", val, FALSE, TRUE)
\* A plain object, val being its JSON text.
Object(val) == Value("object", val, FALSE, TRUE)
JsNull == Value("null", "null", FALSE, TRUE)

\* `${value}`
Str(value) ==
    IF value.type = "object" THEN "[object Object]" ELSE value.val

\* The value writeProperties pushes: the terrain.js revision replaces a
\* value that is no string, boolean or number by its JSON text.
StoredValue(value) ==
    IF encoder = "terrain"
         /\ value.type \notin {"string", "boolean", "number"}
    THEN String(value.val)
    ELSE value

\* valueKey: `${type}:${value}` in vtpbf.js (no type holds a colon, so the
\* key is the pair), the fixed text `$:$` in terrain.js.
ValueKey(value) ==
    IF encoder = "vtpbf" THEN <<value.type, Str(value)>> ELSE <<"$", "$">>

\* writeValue: the field of the Value message that carries the value; an
\* object gets no field.
writeValue(value) ==
    IF value.type = "string" THEN [field |-> 1, val |-> value.val]
    ELSE IF value.type = "boolean" THEN [field |-> 7, val |-> value.val]
    ELSE IF value.type = "number"
         THEN IF ~value.whole THEN [field |-> 3, val |-> value.val]
              ELSE IF value.neg THEN [field |-> 6, val |-> value.val]
              ELSE [field |-> 5, val |-> value.val]
    ELSE [field |-> 0, val |-> ""]

\* ------------------------------------------------------------- context
EmptyContext ==
    [keys |-> << >>, values |-> << >>, keycache |-> << >>,
     valuecache |-> << >>]

\* Names every plain object inherits from Object.prototype.
ObjectPrototype ==
    {"constructor", "toString", "toLocaleString", "valueOf",
     "hasOwnProperty", "isPrototypeOf", "propertyIsEnumerable", "__proto__",
     "__defineGetter__", "__defineSetter__", "__lookupGetter__",
     "__lookupSetter__"}

\* keycache[key]: an index stored earlier, an inherited member of the
\* plain object keycache, or undefined.
KeyIndexOf(keycache, key) ==
    IF key \in DOMAIN keycache THEN [kind |-> "index", at |-> keycache[key]]
    ELSE IF key \in ObjectPrototype THEN [kind |-> "inherited", at |-> 0]
    ELSE [kind |-> "undefined", at |-> 0]

\* The varint written for the key: the index it had or now gets;
\* pbf.writeVarint writes 0 for a value that is no number, as the
\* inherited member is.
KeyVarint(context, key) ==
    LET found == KeyIndexOf(context.keycache, key)
    IN  IF found.kind = "undefined" THEN Len(context.keys) ELSE found.at

\* keys.push(key) and keycache[key] = keyIndex for a key not seen before.
InternKey(context, key) ==
    IF KeyIndexOf(context.keycache, key).kind = "undefined"
    THEN [context EXCEPT !.keys = Append(@, key),
                         !.keycache = (key :> Len(context.keys)) @@ @]
    ELSE context

\* The varint written for the value: the index its cache key has or gets.
ValueVarint(context, value) ==
    IF ValueKey(value) \in DOMAIN context.valuecache
    THEN context.valuecache[ValueKey(value)]
    ELSE Len(context.values)

\* values.push(value) and valuecache[valueKey] = valueIndex for a cache
\* key not seen before.
InternValue(context, value) ==
    IF ValueKey(value) \in DOMAIN context.valuecache THEN context
    ELSE [context EXCEPT
            !.values = Append(@, StoredValue(value)),
            !.valuecache = (ValueKey(value) :> Len(context.values)) @@ @]

RECURSIVE PropertiesFrom(_, _, _, _)
\* The loop of writeProperties from the k-th property on: the context and
\* the varints written.  A null value is skipped.
PropertiesFrom(context, properties, k, tags) ==
    IF k > Len(properties) THEN [context |-> context, tags |-> tags]
    ELSE IF properties[k].value.type = "null"
    THEN PropertiesFrom(context, properties, k + 1, tags)
    ELSE PropertiesFrom(
             InternValue(InternKey(context, properties[k].key),
                         properties[k].value),
             properties, k + 1,
             tags \o <<KeyVarint(context, properties[k].key),
                       ValueVarint(context, properties[k].value)>>)

writeProperties(context, feature) ==
    PropertiesFrom(context, feature.properties, 1, << >>)

\* ------------------------------------------------------------ geometry
\* A geometry is a list of rings and a ring a list of points <<x, y>>,
\* handed over either as flat arrays [x0, y0, x1, y1, ..] ("flat") or as
\* arrays of points [[x0, y0], [x1, y1], ..] ("points").  Two more shapes
\* come from GeoJSON coordinates: a list of polygons, each an array of
\* rings of points ("nested"), and the bare numbers [x, y] of one
\* position ("numbers").  The numbers are fractions with the denominator
\* den, a power of two, which doubles hold exactly.
ScaledGeometry(shape, rings, den) ==
    [shape |-> shape, rings |-> rings, den |-> den]
Geometry(shape, rings) == ScaledGeometry(shape, rings, 1)
NoGeometry == Geometry("none", << >>)

\* A JSON value of GeoJSON coordinates: a number (a fraction n / den),
\* an array, a string, or nothing (undefined or null); NaN comes up as a
\* result only.
Num(n) == [kind |-> "number", n |-> n, items |-> << >>]
Arr(items) == [kind |-> "array", n |-> 0, items |-> items]
Text == [kind |-> "string", n |-> 0, items |-> << >>]
NoCoordinates == [kind |-> "undefined", n |-> 0, items |-> << >>]
NaN == [kind |-> "NaN", n |-> 0, items |-> << >>]
\* coords[0] of undefined or null throws a TypeError.
TypeError == [kind |-> "TypeError", n |-> 0, items |-> << >>]

\* A geometry whose elements do not all have one depth ("mixed") keeps
\* them as the JSON values they are.

\* ring.flat(Infinity) of an array of arrays of points: the points in
\* their order.
RECURSIVE Concat(_)
Concat(arrays) ==
    IF arrays = << >> THEN << >> ELSE Head(arrays) \o Concat(Tail(arrays))

\* ring.flat is no function when the ring is a number or NaN.
HasFlat(geometry) ==
    ~(encoder = "vtpbf" /\ geometry.shape \in {"numbers", "mixed"}
        /\ \E r \in DOMAIN geometry.rings :
               geometry.rings[r].kind # "array")

RECURSIVE Flattened(_)
\* flat(Infinity) of an array of JSON values: its numbers and NaN in
\* their order.
Flattened(items) ==
    IF items = << >> THEN << >>
    ELSE (IF Head(items).kind = "array" THEN Flattened(Head(items).items)
          ELSE <<Head(items)>>) \o Flattened(Tail(items))

RECURSIVE ToNumber(_)
\* The number `value - x` makes of value: an array goes by its text, which
\* is empty (0) for an empty array, the text of its element for an array
\* of one, and holds a comma (NaN) for a longer one.
ToNumber(value) ==
    IF value.kind = "number" THEN value
    ELSE IF value.kind # "array" THEN NaN
    ELSE IF value.items = << >> THEN Num(0)
    ELSE IF Len(value.items) = 1 THEN ToNumber(value.items[1])
    ELSE NaN

\* The array the inner loop reads for a ring of a "mixed" geometry:
\* ring.flat(Infinity) in vtpbf.js, the ring itself in terrain.js, whose
\* elements the subtraction turns into numbers; a number has no elements.
ReadRing(ring) ==
    IF ring.kind # "array" THEN << >>
    ELSE IF encoder = "vtpbf" THEN Flattened(ring.items)
    ELSE [k \in DOMAIN ring.items |-> ToNumber(ring.items[k])]

\* flatRing: the ring as the inner loop reads it.
Flat(geometry, ring) ==
    IF encoder = "vtpbf" /\ geometry.shape = "nested" THEN Concat(ring)
    ELSE ring

\* num << 1 and num >> 31 first turn the number n / den into a 32-bit
\* integer: the fraction is dropped.
Int32Of(n, den) ==
    IF n >= 0 \/ n % den = 0 THEN n \div den ELSE (n \div den) + 1

\* A geometry that is there whatever it holds.
IterableAlways(geometry) == TRUE
\* for (const ring of geometry): undefined is not iterable.
Iterable(geometry) == geometry.shape # "none"

\* The terrain.js revision reads ring[i * 2] of an array of points or of
\* rings, or of a number: an array of two numbers or more, or undefined,
\* minus a number is NaN.
ReadsNaN(geometry) ==
    encoder = "terrain" /\ geometry.shape \in {"points", "nested", "numbers"}

\* Twice the `length` of a ring (length = the array's length / 2): the
\* array holds 2n numbers once flat, n elements otherwise; the length of a
\* number is undefined and its half NaN, which the shifts and the loop
\* condition take as 0.
Halves(geometry, ring) ==
    IF geometry.shape = "numbers" THEN 0
    ELSE IF geometry.shape = "mixed" THEN Len(ReadRing(ring))
    ELSE IF ReadsNaN(geometry) THEN Len(ring) ELSE 2 * Len(ring)

RECURSIVE RingFrom(_, _, _, _, _, _, _, _, _)
\* The inner loop of writeGeometry from index i on, at position (x, y).
\* A NaN delta is written as zigzag(NaN) = 0.  The position and the
\* deltas are fractions over den.
RingFrom(type, ring, nan, den, lineCount, i, x, y, out) ==
    IF 2 * i >= lineCount THEN [x |-> x, y |-> y, out |-> out]
    ELSE
      LET lineto == IF i = 1 /\ type # 1
                    THEN <<command(2, lineCount - 2)>> ELSE << >>
          dx == IF nan THEN 0 ELSE ring[i + 1][1] - x
          dy == IF nan THEN 0 ELSE ring[i + 1][2] - y
      IN  RingFrom(type, ring, nan, den, lineCount, i + 1, x + dx, y + dy,
                   out \o lineto \o <<zigzag(Int32Of(dx, den)),
                                      zigzag(Int32Of(dy, den))>>)

\* Twice the lineCount of a ring.
LineCount(type, geometry, ring) ==
    IF type = POLYGON THEN Halves(geometry, ring) - 2
    ELSE Halves(geometry, ring)

\* The moveto command of a ring.
MoveTo(type, geometry, ring) ==
    command(1, IF type = POINT THEN Halves(geometry, ring) ELSE 2)

\* What a ring has written once its points are out: a polygon's ring
\* ends with closepath.
RingEnded(type, line) ==
    IF type = POLYGON THEN line.out \o <<command(7, 2)>> ELSE line.out

\* A position that starts at (0, 0) again with every ring.
ResetEach(line) == [line EXCEPT !.x = 0, !.y = 0]
\* let x = 0, y = 0 stand before the loop over the rings: a ring starts
\* from the position the ring before has left.
Carried(line) == line

\* One pass of the outer loop: moveto, the points, closepath; the
\* position moves on with the points.
RingPoints(type, geometry, ring, line) ==
    RingFrom(type, ring, ReadsNaN(geometry), geometry.den,
             LineCount(type, geometry, ring), 0, Carried(line).x,
             Carried(line).y,
             line.out \o <<MoveTo(type, geometry, ring)>>)
RingPassed(type, line) ==
    [x |-> line.x, y |-> line.y, out |-> RingEnded(type, line)]
RingWritten(type, geometry, ring, line) ==
    RingPassed(type, RingPoints(type, geometry, ring, line))

RECURSIVE GeometryFrom(_, _, _, _)
\* The outer loop of writeGeometry from the r-th ring on; line holds the
\* position and the output the rings before have left.
GeometryFrom(type, geometry, r, line) ==
    IF r > Len(geometry.rings) THEN line.out
    ELSE GeometryFrom(type, geometry, r + 1,
                      RingWritten(type, geometry,
                                  Flat(geometry, geometry.rings[r]), line))

\* flatRing[k - 1]: undefined past the end of the array, which the
\* subtraction turns into NaN.
ReadAt(read, k) == IF k <= Len(read) THEN read[k] ELSE NaN
\* a - b and a + b of numbers that may be NaN.
Minus(a, b) ==
    IF a.kind = "number" /\ b.kind = "number" THEN Num(a.n - b.n) ELSE NaN
Plus(a, b) ==
    IF a.kind = "number" /\ b.kind = "number" THEN Num(a.n + b.n) ELSE NaN
\* zigzag(d) of a fraction over den or of NaN, which the shifts take as 0.
ZigzagOf(d, den) ==
    IF d.kind = "number" THEN zigzag(Int32Of(d.n, den)) ELSE 0

RECURSIVE MixedRingFrom(_, _, _, _, _, _, _, _)
\* The inner loop of writeGeometry over the array read for a ring of a
\* "mixed" geometry: the position (x, y) turns NaN with the first NaN
\* added to it and stays so.
MixedRingFrom(type, read, den, lineCount, i, x, y, out) ==
    IF 2 * i >= lineCount THEN [x |-> x, y |-> y, out |-> out]
    ELSE
      LET lineto == IF i = 1 /\ type # 1
                    THEN <<command(2, lineCount - 2)>> ELSE << >>
          dx == Minus(ReadAt(read, 2 * i + 1), x)
          dy == Minus(ReadAt(read, 2 * i + 2), y)
      IN  MixedRingFrom(type, read, den, lineCount, i + 1, Plus(x, dx),
                        Plus(y, dy),
                        out \o lineto \o <<ZigzagOf(dx, den),
                                           ZigzagOf(dy, den)>>)

MixedRingPoints(type, geometry, ring, line) ==
    MixedRingFrom(type, ReadRing(ring), geometry.den,
                  LineCount(type, geometry, ring), 0, line.x, line.y,
                  line.out \o <<MoveTo(type, geometry, ring)>>)

RECURSIVE MixedFrom(_, _, _, _)
\* The outer loop of writeGeometry over a "mixed" geometry.
MixedFrom(type, geometry, r, line) ==
    IF r > Len(geometry.rings) THEN line.out
    ELSE MixedFrom(type, geometry, r + 1,
                   RingPassed(type,
                              MixedRingPoints(type, geometry,
                                              geometry.rings[r], line)))

writeGeometry(feature) ==
    IF ~(Iterable(feature.geometry) /\ HasFlat(feature.geometry))
    THEN [threw |-> TRUE, data |-> << >>]
    ELSE IF feature.geometry.shape = "mixed"
    THEN [threw |-> FALSE,
          data |-> MixedFrom(feature.type, feature.geometry, 1,
                             [x |-> Num(0), y |-> Num(0), out |-> << >>])]
    ELSE [threw |-> FALSE,
          data |-> GeometryFrom(feature.type, feature.geometry, 1,
                                [x |-> 0, y |-> 0, out |-> << >>])]

\* ------------------------------------------------- feature, layer, tile
\* A feature of layer.features; Missing is an undefined entry.
Feature(type, properties, geometry) ==
    [there |-> TRUE, type |-> type, properties |-> properties,
     geometry |-> geometry]
Missing ==
    [there |-> FALSE, type |-> 0, properties |-> << >>,
     geometry |-> NoGeometry]

\* The Feature message: tags, type and geometry.
FeatureMessage(feature, props, geom) ==
    [threw |-> geom.threw,
     context |-> props.context,
     out |-> <<[tags |-> props.tags, type |-> feature.type,
                geometry |-> geom.data]>>]

\* writeFeature: the context after the feature and the Feature message,
\* or a throw.
writeFeature(context, feature) ==
    IF ~feature.there
    THEN [threw |-> TRUE, context |-> context, out |-> << >>]
    ELSE FeatureMessage(feature, writeProperties(context, feature),
                        writeGeometry(feature))

RECURSIVE FeaturesFrom(_, _, _, _)
\* The feature loop of writeLayer after the k-th feature, written as one.
FeatureWritten(one, features, k, out) ==
    IF one.threw
    THEN [threw |-> TRUE, context |-> one.context, out |-> out]
    ELSE FeaturesFrom(one.context, features, k + 1, out \o one.out)

\* The feature loop of writeLayer from the k-th feature on.
FeaturesFrom(context, features, k, out) ==
    IF k > Len(features)
    THEN [threw |-> FALSE, context |-> context, out |-> out]
    ELSE FeatureWritten(writeFeature(context, features[k]), features, k, out)

DefaultExtent == 4096
Version == 2

\* The Layer message: version, name, extent, the features, then the key
\* table and the value table of the context.  An extent of 0 stands for an
\* extent that is not set.
LayerMessage(layer, written) ==
    [threw |-> written.threw,
     out |-> [version |-> Version,
              name |-> layer.id,
              extent |-> IF layer.extent # 0 THEN layer.extent
                         ELSE DefaultExtent,
              features |-> written.out,
              keys |-> written.context.keys,
              values |-> [k \in 1..Len(written.context.values) |->
                            writeValue(written.context.values[k])]]]

\* writeLayer: the Layer message, or a throw.
writeLayer(layer) ==
    LayerMessage(layer, FeaturesFrom(EmptyContext, layer.features, 1, << >>))

\* layer.extent = tile.extent for a layer without extent.
Assigned(t, layer) ==
    IF layer.extent = 0 THEN [layer EXCEPT !.extent = t.extent] ELSE layer

\* The layer as it was before `layer.extent = tile.extent`.
LayerGivenEarly(original, assigned) == original
\* The layer encodeVectorTile spreads into the argument of writeLayer:
\* the layer of the tile after the assignment of its extent.
LayerGiven(original, assigned) == assigned

RECURSIVE LayersFrom(_, _, _)
\* The layer loop of encodeVectorTile after the k-th layer, written as one.
LayerWritten(t, k, out, one) ==
    IF one.threw THEN [threw |-> TRUE, tile |-> t, out |-> << >>]
    ELSE LayersFrom(t, k + 1, Append(out, one.out))

\* The layer loop of encodeVectorTile from the k-th layer on: the tile as
\* the loop leaves it and the Layer messages, or a throw.
LayersFrom(t, k, out) ==
    IF k > Len(t.layers) THEN [threw |-> FALSE, tile |-> t, out |-> out]
    ELSE LayerWritten(
             [t EXCEPT !.layers[k] = Assigned(t, t.layers[k])], k, out,
             writeLayer(LayerGiven(t.layers[k], Assigned(t, t.layers[k]))))

MaxEncodes == 2

\* The result of a call: the messages pbf.finish() spells, or a throw that
\* returns nothing.
ResultOf(run) == [threw |-> run.threw, layers |-> run.out]

\* encodeVectorTile(tile)
encodeVectorTile ==
    /\ tile # NoTile
    /\ Len(results) < MaxEncodes
    /\ tile' = LayersFrom(tile, 1, << >>).tile
    /\ results' = Append(results, ResultOf(LayersFrom(tile, 1, << >>)))
    /\ UNCHANGED <<adapterVars, routeVars, infoVars, terrainVars, encoder>>

NextEncode == encodeVectorTile

\* ------------------------------------------------ tiles with properties
MaxFeatures == 2

\* The values a property may take, per key; Absent leaves the key out.
Absent == Value("absent", "", FALSE, TRUE)
ValuesOf(key) ==
    IF key = "a"
    THEN {Number("1", FALSE, TRUE), String("1"), Number("-2", TRUE, TRUE),
          JsNull, Object("{x:1}"), Object("{x:2}")}
    ELSE IF key = "b" THEN {Boolean("true")}
    ELSE {Number("0.5", FALSE, FALSE)}

\* The properties object with the keys a, b and constructor, in that
\* order, each one absent or set.
PropertiesOf(a, b, c) ==
    LET all == <<[key |-> "a", value |-> a], [key |-> "b", value |-> b],
                 [key |-> "constructor", value |-> c]>>
    IN  SelectSeq(all, LAMBDA e : e.value # Absent)

\* Properties objects: every value under the key a alone, and the keys b
\* and constructor beside a number, a null or no a.
PropertyObjects ==
    { PropertiesOf(a, Absent, Absent) : a \in ValuesOf("a") }
    \cup
    { PropertiesOf(a, b, c) :
        a \in {Number("1", FALSE, TRUE), JsNull, Absent},
        b \in ValuesOf("b") \cup {Absent},
        c \in ValuesOf("constructor") \cup {Absent} }

OnePoint == Geometry("flat", << << <<1, 2>> >> >>)

\* Well-formed point features, an undefined entry, and a feature without
\* geometry.
PropertyFeatures ==
    { Feature(POINT, p, OnePoint) : p \in PropertyObjects }
        \cup {Missing, Feature(POINT, << >>, NoGeometry)}

SeqsUpTo(S, n) == UNION { [1..m -> S] : m \in 0..n }

Layer(id, extent, features) ==
    [id |-> id, extent |-> extent, features |-> features]
Tile(extent, layers) == [extent |-> extent, layers |-> layers]

\* One layer of up to MaxFeatures features, or two layers of one feature
\* each; tile and layer with and without an extent.
PropertyTiles ==
    { Tile(te, <<Layer("contour", le, fs)>>) :
        te \in {0, 512}, le \in {0, 256},
        fs \in SeqsUpTo(PropertyFeatures, MaxFeatures) }
    \cup
    { Tile(te, <<Layer("contour", 0, <<f>>), Layer("water", le, <<g>>)>>) :
        te \in {0, 512}, le \in {0, 256},
        f \in PropertyFeatures, g \in PropertyFeatures }

InitEncodeWith(tiles) ==
    /\ InitAdapter /\ rev = "adapter" /\ pieceLength = 2
    /\ IdleRoute /\ IdleInfo /\ IdleTerrain
    /\ encoder \in Encoders
    /\ tile \in tiles
    /\ results = << >>

InitEncode == InitEncodeWith(PropertyTiles)

SpecEncode == InitEncode /\ [][NextEncode]_vars

\* The calls that returned bytes, and the Layer message call r wrote for
\* the k-th layer of the tile.
ReturnedCalls == { r \in DOMAIN results : ~results[r].threw }
Encoded(r, k) == results[r].layers[k]

\* The properties of a feature that carry a value other than null.
NonNull(feature) ==
    SelectSeq(feature.properties, LAMBDA e : e.value.type # "null")
\* The 0-based positions of x in a table.
Positions(table, x) == { i - 1 : i \in { j \in DOMAIN table : table[j] = x } }

\* The tag of the j-th non-null property of feature m: key and value index.
KeyTag(r, k, m, j) == Encoded(r, k).features[m].tags[2 * j - 1]
ValueTag(r, k, m, j) == Encoded(r, k).features[m].tags[2 * j]

\* C14: encoding the same tile twice, the very same object included,
\* yields identical output: all calls on the tile produced the same result.
C14_Deterministic ==
    \A r1 \in DOMAIN results, r2 \in DOMAIN results :
        results[r1] = results[r2]

\* Two calls returned bytes for a tile whose layer got its extent from the
\* tile during the first call, and whose layer has keys to intern.
C14_Witness ==
    /\ Len(results) = 2
    /\ ReturnedCalls = {1, 2}
    /\ tile.layers[1].extent = 512
    /\ Len(Encoded(2, 1).keys) > 0

\* C15: within one encoded layer every property key that occurs with a
\* non-null value appears exactly once in the key table, and every tag
\* index written for a property is the position of its key in the table.
C15_KeyInterning ==
    \A r \in ReturnedCalls : \A k \in DOMAIN tile.layers :
        \A m \in DOMAIN tile.layers[k].features :
            LET P == NonNull(tile.layers[k].features[m])
            IN  \A j \in DOMAIN P :
                    Positions(Encoded(r, k).keys, P[j].key)
                        = {KeyTag(r, k, m, j)}

\* Two features that share the key a were encoded with a once in the table.
C15_WitnessShared ==
    /\ 1 \in ReturnedCalls
    /\ Len(tile.layers[1].features) = 2
    /\ \A m \in {1, 2} :
          /\ Len(NonNull(tile.layers[1].features[m])) > 0
          /\ NonNull(tile.layers[1].features[m])[1].key = "a"
    /\ Positions(Encoded(1, 1).keys, "a") = {0}

\* The non-null property occurrences of layer k: feature and position.
Occurrences(k) ==
    { o \in (DOMAIN tile.layers[k].features) \X (1..3) :
        o[2] <= Len(NonNull(tile.layers[k].features[o[1]])) }
ValueAt(k, o) == NonNull(tile.layers[k].features[o[1]])[o[2]].value
Primitive(value) == value.type \in {"string", "number", "boolean"}

\* C16: within one encoded layer two property values share a value-table
\* entry exactly when they have the same type and the same value, and
\* every value index written refers to an entry equal to the property's
\* own value.
C16_ValueInterning ==
    \A r \in ReturnedCalls : \A k \in DOMAIN tile.layers :
        /\ \A o1 \in Occurrences(k), o2 \in Occurrences(k) :
              (ValueTag(r, k, o1[1], o1[2]) = ValueTag(r, k, o2[1], o2[2]))
                  <=> (ValueAt(k, o1) = ValueAt(k, o2))
        /\ \A o \in Occurrences(k) :
              Primitive(ValueAt(k, o)) =>
                  /\ ValueTag(r, k, o[1], o[2]) + 1
                         \in DOMAIN Encoded(r, k).values
                  /\ Encoded(r, k).values[ValueTag(r, k, o[1], o[2]) + 1]
                         = writeValue(ValueAt(k, o))

\* The number 1 and the string "1" of two features were encoded with the
\* same value index.
C16_WitnessMerged ==
    /\ 1 \in ReturnedCalls
    /\ \E o1 \in Occurrences(1), o2 \in Occurrences(1) :
          /\ ValueAt(1, o1) = Number("1", FALSE, TRUE)
          /\ ValueAt(1, o2) = String("1")
          /\ ValueTag(1, 1, o1[1], o1[2]) = ValueTag(1, 1, o2[1], o2[2])

\* A feature that is missing or has no geometry.
Malformed(feature) == ~feature.there \/ feature.geometry = NoGeometry
HasMalformed ==
    \E k \in DOMAIN tile.layers : \E m \in DOMAIN tile.layers[k].features :
        Malformed(tile.layers[k].features[m])

\* C19: when a layer holds a feature that is missing or has no geometry,
\* encodeVectorTile throws and returns no bytes.
C19_FailFast ==
    HasMalformed =>
        \A r \in DOMAIN results :
            results[r].threw /\ results[r].layers = << >>

\* A call on a tile whose second feature has no geometry has thrown.
C19_Witness ==
    /\ Len(results) > 0
    /\ results[1].threw
    /\ Len(tile.layers[1].features) = 2
    /\ tile.layers[1].features[1].there
    /\ tile.layers[1].features[1].geometry # NoGeometry
    /\ tile.layers[1].features[2].there
    /\ tile.layers[1].features[2].geometry = NoGeometry

\* C20: encodeVectorTile leaves the tile it is given unchanged, layer
\* extents included, whether or not the layers have an extent.
C20_TileUnchanged == [][tile' = tile]_vars

\* A layer that came without extent carries the tile's extent after the
\* call (the layers of the tiles come with extent 256 or with none).
C20_WitnessAssigned ==
    /\ Len(results) > 0
    /\ tile.extent = 512
    /\ tile.layers[1].extent = 512

\* ------------------------------------------- tiles with one-ring geometry
MaxPoints == 4

Corners == {<<0, 0>>, <<10, 0>>, <<10, 10>>, <<0, 10>>}
Rings == SeqsUpTo(Corners, MaxPoints)
GeomTypes == {UNKNOWN, POINT, LINESTRING, POLYGON}

\* Rings of three different corners.
Triangles ==
    { ring \in [1..3 -> Corners] : Cardinality({ring[1], ring[2], ring[3]}) = 3 }

\* One layer with one feature without properties, of any type, whose
\* geometry is one ring, two triangles or no ring, flat or as points.
RingTiles ==
    { Tile(4096, <<Layer("contour", 4096,
                         <<Feature(type, << >>, Geometry(shape, rings))>>)>>) :
        type \in GeomTypes, shape \in {"flat", "points"},
        rings \in { <<ring>> : ring \in Rings } \cup {<< >>}
                    \cup { <<a, b>> : a \in Triangles, b \in Triangles } }

InitGeometry == InitEncodeWith(RingTiles)

SpecGeometry == InitGeometry /\ [][NextEncode]_vars

TheFeature == tile.layers[1].features[1]
TheRing == TheFeature.geometry.rings[1]
\* The geometry field call r wrote for the feature.
Commands(r) == Encoded(r, 1).features[1].geometry

RECURSIVE Deltas(_, _, _, _)
\* The zigzag-encoded steps from (x, y) through the points k.. of a ring.
Deltas(ring, k, x, y) ==
    IF k > Len(ring) THEN << >>
    ELSE <<zigzag(ring[k][1] - x), zigzag(ring[k][2] - y)>>
             \o Deltas(ring, k + 1, ring[k][1], ring[k][2])

\* moveto(1), the first point, lineto(n - 1), the remaining n - 1 points,
\* closepath(1).
ClosedRing(ring) ==
    <<1 + 8 * 1>> \o SubSeq(Deltas(ring, 1, 0, 0), 1, 2)
        \o <<2 + 8 * (Len(ring) - 1)>>
        \o SubSeq(Deltas(ring, 1, 0, 0), 3, 2 * Len(ring))
        \o <<7 + 8 * 1>>

\* C17: a single-ring polygon given as n points with the closing point
\* implicit is encoded as one moveto with count 1, one lineto with count
\* n - 1 carrying all remaining points, and one closepath with count 1.
C17_PolygonClosepath ==
    \A r \in ReturnedCalls :
        (/\ TheFeature.type = POLYGON
         /\ Len(TheFeature.geometry.rings) = 1
         /\ Len(TheRing) >= 3)
            => Commands(r) = ClosedRing(TheRing)

\* The square (0,0),(10,0),(10,10),(0,10) was encoded with a lineto of
\* count 2 and without its fourth point.
C17_WitnessDropped ==
    /\ 1 \in ReturnedCalls
    /\ encoder = "vtpbf"
    /\ TheFeature.type = POLYGON
    /\ TheFeature.geometry.rings
           = << <<(<<0, 0>>), <<10, 0>>, <<10, 10>>, <<0, 10>>>> >>
    /\ Commands(1) = <<9, 0, 0, 18, 20, 0, 0, 20, 15>>

\* ------------------------------------------------ tiles with one point
\* 32-bit integers around the powers of two where the shifts overflow.
Int32Samples ==
    {MinInt32, MinInt32 + 1, -(2^30) - 1, -(2^30), -(2^30) + 1, -(2^16),
     -3, -2, -1, 0, 1, 2, 3, 2^16 - 1, 2^30 - 1, 2^30, 2^30 + 1,
     MaxInt32 - 1, MaxInt32}

PointTiles ==
    { Tile(4096, <<Layer("contour", 4096,
                         <<Feature(POINT, << >>,
                                   Geometry("flat", << << <<a, b>> >> >>))>>)>>) :
        a \in Int32Samples, b \in Int32Samples }

InitZigzag == InitEncodeWith(PointTiles)

SpecZigzag == InitZigzag /\ [][NextEncode]_vars

\* z >>> 1
ShiftRightLogical1(z) == IF z >= 0 THEN z \div 2 ELSE (z \div 2) - MinInt32
\* unzigzag(z) = (z >>> 1) ^ -(z & 1)
unzigzag(z) == Xor32(ShiftRightLogical1(z), -(z % 2))

\* C18: for 32-bit signed integers n the value zigzag(n) the encoder
\* writes is mapped back to n by unzigzag, and zigzag is injective: the
\* two coordinates of the encoded point decode to themselves, and equal
\* written values come from equal coordinates.
C18_ZigzagInverts ==
    \A r \in ReturnedCalls :
        LET a == TheRing[1][1]
            b == TheRing[1][2]
        IN  /\ Len(Commands(r)) = 3
            /\ unzigzag(Commands(r)[2]) = a
            /\ unzigzag(Commands(r)[3]) = b
            /\ (Commands(r)[2] = Commands(r)[3]) => (a = b)

\* The point (-2^31, 2^31 - 1) has been written as (-1, -2).
C18_Witness ==
    /\ 1 \in ReturnedCalls
    /\ TheRing[1] = <<MinInt32, MaxInt32>>
    /\ Commands(1) = <<9, -1, -2>>

\* =====================================================================
\* serializeMVT: GeoJSON contours to an encoded tile (terrain.js)
\* =====================================================================
MaxTileZoom == 1

\* The tiles (z, x, y) with 0 <= x, y < 2^z.
TileCoordinates ==
    { c \in (0..MaxTileZoom) \X (0..(2^MaxTileZoom - 1))
            \X (0..(2^MaxTileZoom - 1)) : c[2] < 2^c[1] /\ c[3] < 2^c[1] }

\* Source coordinates are fractions n / PixelDen of a pixel; with a power
\* of two as denominator the doubles of the code hold every value below
\* exactly.
PixelDen == 2^13

\* tileToBBox(z, x, y): minX, minY, maxX, maxY as numerators over scale.
tileToBBox(z, x, y) ==
    [scale |-> 2^z, minX |-> x, minY |-> y, maxX |-> x + 1, maxY |-> y + 1]

\* ((c - sourceMin) / (sourceMax - sourceMin)) * extent for c = n /
\* PixelDen and the bounds lo / scale and hi / scale, as a numerator over
\* PixelDen, then Math.min(Math.max(scaled, 0), extent).
Scaled(n, extent, lo, hi, scale) ==
    ((n * scale - lo * PixelDen) * extent) \div (hi - lo)
Clipped(scaled, extent) == Min(Max(scaled, 0), extent * PixelDen)

\* typeof coords[0] === 'number' && typeof coords[1] === 'number'
IsPosition(coords) ==
    /\ coords.kind = "array"
    /\ Len(coords.items) >= 2
    /\ coords.items[1].kind = "number"
    /\ coords.items[2].kind = "number"

\* coords.map(...): the array of the results, unless one of them threw.
Mapped(mapped) ==
    IF \E k \in DOMAIN mapped : mapped[k] = TypeError THEN TypeError
    ELSE Arr(mapped)

RECURSIVE transformCoords(_, _, _)
\* transformCoords: a position is scaled and clipped, any other array is
\* mapped element by element, anything else gives NaN.
transformCoords(coords, extent, box) ==
    IF coords.kind = "undefined" THEN TypeError
    ELSE IF IsPosition(coords)
    THEN Arr(<<Num(Clipped(Scaled(coords.items[1].n, extent, box.minX,
                                  box.maxX, box.scale), extent)),
               Num(Clipped(Scaled(coords.items[2].n, extent, box.minY,
                                  box.maxY, box.scale), extent))>>)
    ELSE IF coords.kind = "array"
    THEN Mapped([k \in DOMAIN coords.items |->
                   transformCoords(coords.items[k], extent, box)])
    ELSE NaN

\* geomType of serializeMVT.
geomType(type) ==
    IF type = "MultiPolygon" THEN POLYGON
    ELSE IF type = "Point" THEN POINT
    ELSE IF type = "LineString" THEN LINESTRING
    ELSE UNKNOWN

\* An array of two numbers as the point <<x, y>>.
IsPair(t) ==
    /\ t.kind = "array" /\ Len(t.items) = 2
    /\ t.items[1].kind = "number" /\ t.items[2].kind = "number"
PointOf(t) == <<t.items[1].n, t.items[2].n>>
\* An array of points, and the points of it.
IsPoints(t) ==
    t.kind = "array" /\ \A k \in DOMAIN t.items : IsPair(t.items[k])
PointsOf(t) == [k \in DOMAIN t.items |-> PointOf(t.items[k])]
\* An array of arrays of points.
IsRings(t) ==
    t.kind = "array" /\ \A k \in DOMAIN t.items : IsPoints(t.items[k])

\* The transformed coordinates as writeGeometry meets them: a value that
\* cannot be iterated, an array of numbers or NaN, of points (each a flat
\* array of one point), of rings of points, or of polygons of rings.
AsGeometry(coords) ==
    IF coords.kind # "array" THEN ScaledGeometry("none", << >>, PixelDen)
    ELSE IF \A k \in DOMAIN coords.items :
               coords.items[k].kind \in {"number", "NaN"}
    THEN ScaledGeometry("numbers", coords.items, PixelDen)
    ELSE IF IsPoints(coords)
    THEN ScaledGeometry("flat",
                        [k \in DOMAIN coords.items |->
                           <<PointOf(coords.items[k])>>], PixelDen)
    ELSE IF IsRings(coords)
    THEN ScaledGeometry("points",
                        [k \in DOMAIN coords.items |->
                           PointsOf(coords.items[k])], PixelDen)
    ELSE IF \A k \in DOMAIN coords.items : IsRings(coords.items[k])
    THEN ScaledGeometry("nested",
                        [k \in DOMAIN coords.items |->
                           [j \in DOMAIN coords.items[k].items |->
                              PointsOf(coords.items[k].items[j])]],
                        PixelDen)
    ELSE ScaledGeometry("mixed", coords.items, PixelDen)

\* A GeoJSON feature.
GeoFeature(type, coordinates, properties) ==
    [type |-> type, coordinates |-> coordinates, properties |-> properties]

\* The feature serializeMVT builds from a GeoJSON feature.
ContourFeature(f, extent, box) ==
    Feature(geomType(f.type), f.properties,
            AsGeometry(transformCoords(f.coordinates, extent, box)))

\* Building the tile throws: the coordinates of a feature are missing.
BuildThrows(c) ==
    \E k \in DOMAIN c.features :
        transformCoords(c.features[k].coordinates, c.extent,
                        tileToBBox(c.z, c.x, c.y)) = TypeError

\* The tile serializeMVT hands to encodeVectorTile.
ContourTile(c) ==
    Tile(c.extent,
         <<Layer("contour", c.extent,
                 [k \in DOMAIN c.features |->
                    ContourFeature(c.features[k], c.extent,
                                   tileToBBox(c.z, c.x, c.y))])>>)

\* return null
ReturnsNull == [threw |-> FALSE, layers |-> << >>]
\* throw error
Rethrown == [threw |-> TRUE, layers |-> << >>]

\* serializeMVT(geojson, z, x, y, extent): null for a collection without
\* features, else what encodeVectorTile makes of the tile built; an
\* error of the encoder is thrown on.
serializeMVT ==
    /\ contour # NoContour
    /\ results = << >>
    /\ IF contour.features = << >>
       THEN /\ results' = <<ReturnsNull>>
            /\ tile' = tile
       ELSE IF BuildThrows(contour)
       THEN /\ results' = <<Rethrown>>
            /\ tile' = tile
       ELSE /\ tile' = LayersFrom(ContourTile(contour), 1, << >>).tile
            /\ results' =
                 <<ResultOf(LayersFrom(ContourTile(contour), 1, << >>))>>
    /\ UNCHANGED <<adapterVars, routeVars, infoVars, encoder, terrainVars>>

NextContour == serializeMVT

\* ---------------------------------------------------- contour inputs
\* Positions on a raster of 2 x 2 pixels: its corners, its middle, and
\* positions a small fraction or half a pixel off.
Pixel(a) == a * PixelDen
SourcePoints ==
    {<<0, 0>>, <<Pixel(1), Pixel(1)>>, <<Pixel(2), Pixel(2)>>, <<1, 3>>,
     <<Pixel(1) \div 2, Pixel(2)>>}
SourceRings ==
    { ring \in [1..3 -> SourcePoints] :
        Cardinality({ring[1], ring[2], ring[3]}) = 3 }
Hole == <<(<<1, 3>>), <<Pixel(1) \div 2, Pixel(2)>>, <<Pixel(1), Pixel(1)>>>>

Elevation == <<[key |-> "elevation", value |-> Number("100", FALSE, TRUE)]>>

\* The JSON of a position and of an array of positions.
Position(p) == Arr(<<Num(p[1]), Num(p[2])>>)
Line(ps) == Arr([k \in DOMAIN ps |-> Position(ps[k])])

\* A MultiPolygon of one ring, of a ring with a hole, or of two polygons;
\* a Polygon; a LineString; a MultiPoint; a Point of two numbers, of
\* three, of one, and one whose coordinates are a number or a string; a
\* GeometryCollection, which has no coordinates; and coordinates whose
\* elements differ in depth: a position beside a number, a polygon beside
\* a ring, an array of one number beside a position.
GeoFeatures ==
    { GeoFeature("MultiPolygon", Arr(<<Arr(<<Line(ring)>>)>>),
                 Elevation) : ring \in SourceRings }
    \cup { GeoFeature("MultiPolygon",
                      Arr(<<Arr(<<Line(ring), Line(Hole)>>)>>),
                      Elevation) : ring \in SourceRings }
    \cup { GeoFeature("MultiPolygon",
                      Arr(<<Arr(<<Line(ring)>>),
                            Arr(<<Line(Hole)>>)>>),
                      Elevation) : ring \in SourceRings }
    \cup { GeoFeature("Polygon", Arr(<<Line(ring)>>), Elevation) :
            ring \in SourceRings }
    \cup { GeoFeature("LineString", Line(<<p, q>>), Elevation) :
            p \in SourcePoints, q \in SourcePoints }
    \cup { GeoFeature("MultiPoint", Line(<<p, q>>), Elevation) :
            p \in SourcePoints, q \in SourcePoints }
    \cup { GeoFeature("Point", Position(p), Elevation) : p \in SourcePoints }
    \cup { GeoFeature("Point", Arr(<<Num(p[1]), Num(p[2]), Num(0)>>),
                      Elevation) : p \in SourcePoints }
    \cup { GeoFeature("Point", c, Elevation) :
            c \in {Arr(<<Num(Pixel(1) \div 2)>>), Num(Pixel(1)), Text} }
    \cup { GeoFeature("GeometryCollection", NoCoordinates, Elevation) }
    \cup { GeoFeature("LineString",
                      Arr(<<Position(p), Num(Pixel(1))>>), Elevation) :
            p \in SourcePoints }
    \cup { GeoFeature("MultiPolygon",
                      Arr(<<Arr(<<Line(ring)>>), Line(Hole)>>),
                      Elevation) : ring \in SourceRings }
    \cup { GeoFeature("Point",
                      Arr(<<Arr(<<Num(Pixel(1) \div 2)>>), Position(p)>>),
                      Elevation) : p \in SourcePoints }

\* The calls: a collection of no feature or of one, traced on a raster of
\* size x size pixels, for a tile and an extent.
Contours ==
    { [size |-> 2, z |-> c[1], x |-> c[2], y |-> c[3], extent |-> 4096,
       features |-> fs] :
        c \in TileCoordinates,
        fs \in { <<f>> : f \in GeoFeatures } \cup {<< >>} }

InitContour ==
    /\ InitAdapter /\ rev = "adapter" /\ pieceLength = 2
    /\ IdleRoute /\ IdleInfo
    /\ encoder \in Encoders
    /\ tile = NoTile
    /\ results = << >>
    /\ contour \in Contours
    /\ combine = NoCombine

SpecContour == InitContour /\ [][NextContour]_vars

\* ------------------------------------------ pieces under concurrent calls
\* Call c has been issued and piece i lies in its range.
Needs(c, i) ==
    /\ calls[c].pc # "idle"
    /\ startPieceIndex(calls[c].offset, pieceLength) <= i
    /\ i <= endPieceIndex(calls[c].offset, calls[c].length, pieceLength)

\* C29: when two getBytes calls on one torrent source overlap in time and
\* need the same piece, the piece is requested from the piece-fetch
\* capability at most once.
C29_NoDuplicateFetch ==
    \A i \in PieceIds :
        ( /\ source = "torrent"
          /\ calls[2].overlapped
          /\ Needs(1, i) /\ Needs(2, i) ) => fetchCount[i] <= 1

\* C29 happens: the second call was issued while the first was in flight,
\* both needed piece i and both returned, and the piece was requested once:
\* the second call found it in downloadedPieces.
C29_WitnessCached ==
    \E i \in PieceIds :
        /\ source = "torrent"
        /\ calls[2].overlapped
        /\ Needs(1, i) /\ Needs(2, i)
        /\ calls[1].pc = "ok" /\ calls[2].pc = "ok"
        /\ fetchCount[i] = 1

\* ------------------------------------------- reading a command stream
\* A decoder of the geometry field: the command id and count of a command
\* integer, and the walk through the stream.
CommandId(c) == c % 8
CommandCount(c) == c \div 8

NothingRead == [points |-> << >>, movetos |-> 0, closes |-> 0]
Unreadable == [ok |-> FALSE, points |-> << >>, movetos |-> 0, closes |-> 0]

RECURSIVE Decode(_, _, _, _, _, _, _)
\* Reads cmds from index k on: left is the number of pairs the last moveto
\* or lineto still owes, (x, y) the cursor, inRing holds after the point
\* of a moveto until closepath.  ok fails on a command that is none of
\* moveto, lineto and closepath, on a count below 1, on a pair that is
\* not there, on a lineto or closepath outside a ring.
Decode(cmds, k, left, x, y, inRing, read) ==
    IF left > 0
    THEN IF k + 1 > Len(cmds) THEN Unreadable
         ELSE Decode(cmds, k + 2, left - 1,
                     x + unzigzag(cmds[k]), y + unzigzag(cmds[k + 1]), TRUE,
                     [read EXCEPT !.points =
                         Append(@, <<x + unzigzag(cmds[k]),
                                     y + unzigzag(cmds[k + 1])>>)])
    ELSE IF k > Len(cmds)
    THEN [ok |-> TRUE, points |-> read.points, movetos |-> read.movetos,
          closes |-> read.closes]
    ELSE IF CommandId(cmds[k]) = 1 /\ CommandCount(cmds[k]) >= 1
    THEN Decode(cmds, k + 1, CommandCount(cmds[k]), x, y, FALSE,
                [read EXCEPT !.movetos = @ + 1])
    ELSE IF CommandId(cmds[k]) = 2 /\ CommandCount(cmds[k]) >= 1 /\ inRing
    THEN Decode(cmds, k + 1, CommandCount(cmds[k]), x, y, TRUE, read)
    ELSE IF CommandId(cmds[k]) = 7 /\ CommandCount(cmds[k]) = 1 /\ inRing
    THEN Decode(cmds, k + 1, 0, x, y, FALSE, [read EXCEPT !.closes = @ + 1])
    ELSE Unreadable

Decoded(cmds) == Decode(cmds, 1, 0, 0, 0, FALSE, NothingRead)

\* The points of a ring the inner loop writes: all of them, or all but
\* the last one for a polygon.
EmittedOf(type, ring) ==
    SubSeq(ring, 1, IF type = POLYGON THEN Len(ring) - 1 ELSE Len(ring))
RECURSIVE EmittedFrom(_, _, _)
EmittedFrom(type, rings, r) ==
    IF r > Len(rings) THEN << >>
    ELSE EmittedOf(type, rings[r]) \o EmittedFrom(type, rings, r + 1)
Emitted(feature) == EmittedFrom(feature.type, feature.geometry.rings, 1)

\* C24: the running position starts at (0, 0) once per geometry and is
\* not reset between rings: for integer coordinates that the encoder reads
\* as numbers, every pair written is the step from the point written
\* before it (the last point of the ring before for the first point of a
\* later ring), so the prefix sums of the decoded pairs are the points
\* written, in their order.
C24_RunningPosition ==
    \A r \in ReturnedCalls :
        (/\ ~ReadsNaN(TheFeature.geometry)
         /\ Decoded(Commands(r)).ok)
            => Decoded(Commands(r)).points = Emitted(TheFeature)

\* C24 happens: a geometry of two rings was encoded, the first ring ended
\* away from (0, 0), and the decoded points are the points of both rings.
C24_WitnessSecondRing ==
    /\ 1 \in ReturnedCalls
    /\ ~ReadsNaN(TheFeature.geometry)
    /\ TheFeature.type = LINESTRING
    /\ Len(TheFeature.geometry.rings) = 2
    /\ TheFeature.geometry.rings[1][3] = <<10, 10>>
    /\ TheFeature.geometry.rings[2][1] = <<0, 10>>
    /\ Decoded(Commands(1)).ok
    /\ Decoded(Commands(1)).points = Emitted(TheFeature)
    /\ Commands(1)[10] = zigzag(0 - 10)

\* C30: the command stream of a call that returned is well formed: every
\* moveto and lineto has a count of 1 or more and is followed by that many
\* pairs, and closepath follows only a ring whose moveto had its point,
\* whatever the length of the rings.
C30_WellFormedStream ==
    \A r \in ReturnedCalls : Decoded(Commands(r)).ok

\* A polygon ring of two points was written as moveto, its first point
\* and closepath.
C30_WitnessTwoPoints ==
    /\ 1 \in ReturnedCalls
    /\ encoder = "vtpbf"
    /\ TheFeature.type = POLYGON
    /\ Len(TheFeature.geometry.rings) = 1
    /\ Len(TheRing) = 2
    /\ Decoded(Commands(1)).ok
    /\ Len(Commands(1)) = 4

\* ------------------------------------------------ claims on serializeMVT
\* serializeMVT was called with a collection that has features.
Serialized ==
    results # << >> /\ contour # NoContour /\ contour.features # << >>
\* serializeMVT has built the tile and handed it to the encoder.
Built == Serialized /\ tile # NoTile
\* The rings of the polygons of MultiPolygon coordinates.
RingsOf(coords) ==
    Concat([k \in DOMAIN coords.items |-> coords.items[k].items])
\* The k-th GeoJSON feature, the feature built from it, and the geometry
\* field written for it.
SourceFeature(k) == contour.features[k]
BuiltFeature(k) == tile.layers[1].features[k]
Stream(k) == Encoded(1, 1).features[k].geometry
Features == DOMAIN contour.features

\* C23: for every MultiPolygon serializeMVT hands to the encoder the
\* command stream can be read and holds exactly one moveto and exactly one
\* closepath per ring of the geometry, holes included.
C23_MovetoPerRing ==
    (Serialized /\ ~results[1].threw) =>
        \A k \in Features :
            SourceFeature(k).type = "MultiPolygon" =>
                /\ Decoded(Stream(k)).ok
                /\ Decoded(Stream(k)).movetos
                       = Len(RingsOf(SourceFeature(k).coordinates))
                /\ Decoded(Stream(k)).closes
                       = Len(RingsOf(SourceFeature(k).coordinates))

\* C23 happens: a MultiPolygon of two polygons of one ring each was
\* written with two movetos and two closepaths.
C23_WitnessTwoPolygons ==
    /\ Serialized /\ ~results[1].threw
    /\ SourceFeature(1).type = "MultiPolygon"
    /\ Len(SourceFeature(1).coordinates.items) = 2
    /\ \A p \in 1..2 : IsRings(SourceFeature(1).coordinates.items[p])
    /\ Decoded(Stream(1)).ok
    /\ Decoded(Stream(1)).movetos = 2
    /\ Decoded(Stream(1)).closes = 2

\* The numbers of a geometry, whatever its shape.
NumbersOf(geometry) ==
    IF geometry.shape \in {"numbers", "mixed"}
    THEN { Flattened(geometry.rings)[i] :
             i \in DOMAIN Flattened(geometry.rings) }
    ELSE IF geometry.shape = "nested"
    THEN { Num(Concat(Concat(geometry.rings))[p][c]) :
             p \in DOMAIN Concat(Concat(geometry.rings)), c \in 1..2 }
    ELSE { Num(Concat(geometry.rings)[p][c]) :
             p \in DOMAIN Concat(geometry.rings), c \in 1..2 }

\* The points writeGeometry writes for a geometry whose rings it reads as
\* numbers, as whole numbers times the denominator.
WrittenPoints(feature) ==
    EmittedFrom(feature.type,
                [r \in DOMAIN feature.geometry.rings |->
                    Flat(feature.geometry, feature.geometry.rings[r])], 1)
TimesDen(points, den) ==
    [i \in DOMAIN points |-> <<points[i][1] * den, points[i][2] * den>>]

\* C25: every coordinate that reaches the encoder through serializeMVT is
\* a whole number, and the points a decoder rebuilds (prefix sums of the
\* decoded deltas) are the projected positions of the source points.
C25_IntegerCoordinates ==
    (Serialized /\ ~results[1].threw) =>
        \A k \in Features :
            /\ \A v \in NumbersOf(BuiltFeature(k).geometry) :
                   /\ v.kind = "number"
                   /\ v.n % BuiltFeature(k).geometry.den = 0
            /\ ( /\ BuiltFeature(k).geometry.shape # "mixed"
                 /\ ~ReadsNaN(BuiltFeature(k).geometry)
                 /\ Decoded(Stream(k)).ok )
                   => TimesDen(Decoded(Stream(k)).points, PixelDen)
                          = WrittenPoints(BuiltFeature(k))

\* C25 happens: a line from pixel (0, 0) to pixel (1, 1) of tile (0, 0, 0)
\* reached the encoder as (0, 0), (4096, 4096) and is decoded as such.
C25_WitnessWhole ==
    /\ Serialized /\ ~results[1].threw
    /\ contour.z = 0
    /\ SourceFeature(1).type = "LineString"
    /\ SourceFeature(1).coordinates
           = Line(<<(<<0, 0>>), <<Pixel(1), Pixel(1)>>>>)
    /\ BuiltFeature(1).geometry.rings
           = << <<(<<0, 0>>)>>, <<(<<Pixel(4096), Pixel(4096)>>)>> >>
    /\ Decoded(Stream(1)).ok
    /\ Decoded(Stream(1)).points = <<(<<0, 0>>), <<4096, 4096>>>>

RECURSIVE Projected(_, _, _)
\* The claimed projection: the pixel (px, py) of a raster of size x size
\* pixels lies at (px / size * extent, py / size * extent).
Projected(coords, extent, size) ==
    IF IsPosition(coords)
    THEN Arr(<<Num((coords.items[1].n * extent) \div size),
               Num((coords.items[2].n * extent) \div size)>>)
    ELSE IF coords.kind = "array"
    THEN Arr([k \in DOMAIN coords.items |->
                Projected(coords.items[k], extent, size)])
    ELSE NaN

\* C26: serializeMVT places the pixel (px, py) of the tile's raster at
\* (px / width * extent, py / height * extent), for every tile (z, x, y).
C26_PixelProjection ==
    Built =>
        \A k \in Features :
            BuiltFeature(k).geometry
                = AsGeometry(Projected(SourceFeature(k).coordinates,
                                       contour.extent, contour.size))

\* C26 happens: the corners (0, 0) and (width, height) of the raster of
\* tile (0, 0, 0) were placed at (0, 0) and (extent, extent).
C26_WitnessCorners ==
    /\ Built
    /\ contour.z = 0
    /\ SourceFeature(1).type = "LineString"
    /\ SourceFeature(1).coordinates
           = Line(<<(<<0, 0>>), <<Pixel(2), Pixel(2)>>>>)
    /\ BuiltFeature(1).geometry.rings
           = << <<(<<0, 0>>)>>, <<(<<Pixel(4096), Pixel(4096)>>)>> >>

\* The geometry type the claim gives each GeoJSON type.
ClaimedType(type) ==
    IF type = "MultiPolygon" THEN 3
    ELSE IF type = "Point" THEN 1
    ELSE IF type = "LineString" THEN 2
    ELSE 0

\* C27: for a collection with features of any GeoJSON geometry type,
\* serializeMVT does not fail: it returns an encoded tile whose features
\* carry the geometry type of the mapping.
C27_TotalOverTypes ==
    Serialized =>
        /\ ~results[1].threw
        /\ results[1] # ReturnsNull
        /\ \A k \in Features :
               Encoded(1, 1).features[k].type
                   = ClaimedType(SourceFeature(k).type)

\* C27 happens: a Polygon, a type without a mapping of its own, was
\* encoded with the UNKNOWN marker.
C27_WitnessUnknown ==
    /\ Serialized /\ ~results[1].threw
    /\ SourceFeature(1).type = "Polygon"
    /\ Encoded(1, 1).features[1].type = UNKNOWN


\* =====================================================================
\* combineTiles: the 3 x 3 grid of height tiles (terrain.js, utils.js)
\* =====================================================================
\* Every raster tile of a source has the same size.
RasterWidth == 2
RasterHeight == 3

SourceTypes == {"pmtiles", "mbtiles", "other"}
Encodings == {"terrarium", "mapbox"}

\* JavaScript null as an element of neighbors.
NoGrid == [width |-> 0, height |-> 0, heightValues |-> << >>]

\* The tile grid of zoom z holds (x, y).
InGrid(z, x, y) == x >= 0 /\ y >= 0 /\ x < 2^z /\ y < 2^z

\* The pixels of the stored tile (z, x, y), four bytes each (ensureAlpha),
\* row by row; the red byte tells the tiles apart, the blue byte the
\* pixels of one tile.
ImageData(z, x, y) ==
    [width |-> RasterWidth, height |-> RasterHeight,
     data |-> [i \in 1..(4 * RasterWidth * RasterHeight) |->
                 CASE (i - 1) % 4 = 0 -> 128 + y * 2^z + x
                   [] (i - 1) % 4 = 1 -> z
                   [] (i - 1) % 4 = 2 -> (i - 1) \div 4
                   [] OTHER -> 255]]

\* What a source answers for (z, x, y): a failure of the read, no tile
\* (pmtiles: getZxy resolves to undefined; mbtiles: 'Tile does not
\* exist'), a row without data (mbtiles), bytes that are no image, or the
\* image of the tile.  Outside the tile grid a source holds no tile.
TileAnswers(sourceType, z, x, y) ==
    IF sourceType = "other" THEN {"unasked"}
    ELSE {"failure", "missing"}
         \cup (IF sourceType = "mbtiles" THEN {"null"} ELSE {})
         \cup (IF InGrid(z, x, y) THEN {"corrupt", "image"} ELSE {})

Fetched(threw, data) == [threw |-> threw, data |-> data]

\* fetchTileData(source, sourceType, z, x, y) when the source answers
\* `answer`: the data, null or undefined, or a rejection.
fetchTileData(sourceType, answer) ==
    LET held == IF answer \in {"corrupt", "image"} THEN "data" ELSE answer
    IN  IF sourceType = "pmtiles"
        THEN IF answer = "failure" THEN Fetched(TRUE, "undefined")
             ELSE IF getPMtilesTile([answer |-> held]) = "undefined"
                  THEN Fetched(FALSE, "undefined")
                  ELSE Fetched(FALSE, answer)
        ELSE IF sourceType = "mbtiles"
        THEN IF answer = "missing" THEN Fetched(FALSE, "null")
             ELSE IF answer = "failure" THEN Fetched(TRUE, "undefined")
             ELSE Fetched(FALSE, answer)
        ELSE Fetched(FALSE, "null")

\* terrainrgb2height(r, g, b, encoding), in tenths of a metre.
terrainrgb2height(r, g, b, encoding) ==
    IF encoding = "terrarium"
    THEN 10 * (r * 256 + g + b - 32768)
    ELSE -100000 + (r * 256 * 256 + g * 256 + b)

\* A height value: a number, NaN, or undefined.
Height(tenths) == [kind |-> "number", value |-> tenths]
NotANumber == [kind |-> "NaN", value |-> 0]
NoValue == [kind |-> "undefined", value |-> 0]

\* extractHeightValues(imagePixelData, encoding): one value for every i
\* below length / 4, whole pixel or not; a byte past the end of the data
\* is undefined, and the height computed from it NaN.
extractHeightValues(imagePixelData, encoding) ==
    [i \in 1..((Len(imagePixelData) + 3) \div 4) |->
        IF (i - 1) * 4 + 3 <= Len(imagePixelData)
        THEN Height(terrainrgb2height(imagePixelData[(i - 1) * 4 + 1],
                                      imagePixelData[(i - 1) * 4 + 2],
                                      imagePixelData[(i - 1) * 4 + 3],
                                      encoding))
        ELSE NotANumber]

\* getImageData(new Blob([data])) for the data of tile (z, x, y): the
\* decoded image, or the error of sharp for bytes that are no image.
getImageData(data, z, x, y) ==
    IF data = "image"
    THEN [threw |-> FALSE, imageData |-> ImageData(z, x, y)]
    ELSE [threw |-> TRUE,
          imageData |-> [width |-> 0, height |-> 0, data |-> << >>]]

\* The object a pass pushes for a decoded image.
GridOf(imageData, encoding) ==
    [width |-> imageData.width, height |-> imageData.height,
     heightValues |-> extractHeightValues(imageData.data, encoding)]

\* get(x, y) of one neighbour: heightValues[y * width + x].
TileGet(grid, x, y) ==
    IF y * grid.width + x + 1 \in DOMAIN grid.heightValues
    THEN grid.heightValues[y * grid.width + x + 1]
    ELSE NoValue

\* gridIdx of get(x, y) of the combined grid.
GridIdxByColumn(x, y, width, height) ==
    (IF x < 0 THEN 0 ELSE IF x < width THEN 3 ELSE 6)
    + (IF y < 0 THEN 0 ELSE IF y < height THEN 1 ELSE 2)

GridIdx(x, y, width, height) ==
    (IF y < 0 THEN 0 ELSE IF y < height THEN 3 ELSE 6)
    + (IF x < 0 THEN 0 ELSE IF x < width THEN 1 ELSE 2)

\* The coordinate after `y += height` / `y -= height`.
Shifted(v, size) == IF v < 0 THEN v + size ELSE IF v < size THEN v ELSE v - size

\* get(x, y) of the grid that combineTiles returns.
CombinedGet(neighbors, width, height, x, y) ==
    IF neighbors[GridIdx(x, y, width, height) + 1] # NoGrid
    THEN TileGet(neighbors[GridIdx(x, y, width, height) + 1],
                 Shifted(x, width), Shifted(y, height))
    ELSE NotANumber

\* The loop variables of pass k (0-based): dy outer, dx inner.
PassDx(k) == (k % 3) - 1
PassDy(k) == (k \div 3) - 1

\* The call returns nothing when any of the nine tiles is missing.
CompleteGrid(neighbors) ==
    IF \E i \in DOMAIN neighbors : neighbors[i] = NoGrid
    THEN "undefined" ELSE "grid"

\* const mainTile = neighbors[4]; if (!mainTile) return undefined
ReturnedGrid(neighbors) ==
    IF neighbors[5] = NoGrid THEN "undefined" ELSE "grid"

\* The tile of pass k: (x + dx, y + dy).
TileOfPass(c, k) == <<c.x + PassDx(k), c.y + PassDy(k)>>

\* neighbors.push(slot), then the next pass up to its await of
\* fetchTileData, or after the ninth pass the return.
Pushed(c, slot) ==
    [c EXCEPT
       !.k = @ + 1,
       !.neighbors = Append(@, slot),
       !.data = "none",
       !.asked = IF c.k = 8 THEN @ ELSE Append(@, TileOfPass(c, c.k + 1)),
       !.pc = IF c.k = 8 THEN "done" ELSE "fetching",
       !.out = IF c.k = 8
               THEN ReturnedGrid(Append(c.neighbors, slot)) ELSE @]

\* The call of combineTiles up to its first await: fetchTileData is
\* called for the first tile.
combineTiles ==
    /\ combine.pc = "called"
    /\ combine' = [combine EXCEPT
                     !.pc = "fetching",
                     !.asked = Append(@, TileOfPass(combine, 0))]
    /\ UNCHANGED <<adapterVars, routeVars, infoVars, encodeVars, contour>>

\* The promise of fetchTileData settles: on a rejection, null or
\* undefined the pass pushes null and the loop goes on; with data the
\* pass calls getImageData and waits again.
fetchTileDataSettled(answer) ==
    /\ combine.pc = "fetching"
    /\ answer \in TileAnswers(combine.sourceType, combine.z,
                              TileOfPass(combine, combine.k)[1],
                              TileOfPass(combine, combine.k)[2])
    /\ combine' =
         IF \/ fetchTileData(combine.sourceType, answer).threw
            \/ fetchTileData(combine.sourceType, answer).data
                   \in {"null", "undefined"}
         THEN Pushed([combine EXCEPT
                        !.last = answer,
                        !.centre = IF combine.k = 4 THEN answer ELSE @],
                     NoGrid)
         ELSE [combine EXCEPT
                 !.pc = "decoding",
                 !.data = fetchTileData(combine.sourceType, answer).data,
                 !.last = answer,
                 !.centre = IF combine.k = 4 THEN answer ELSE @]
    /\ UNCHANGED <<adapterVars, routeVars, infoVars, encodeVars, contour>>

\* The promise of getImageData settles: on a rejection the pass pushes
\* null, else the grid of the decoded heights; the loop goes on.
getImageDataSettled ==
    /\ combine.pc = "decoding"
    /\ combine' =
         IF getImageData(combine.data, combine.z,
                         TileOfPass(combine, combine.k)[1],
                         TileOfPass(combine, combine.k)[2]).threw
         THEN Pushed(combine, NoGrid)
         ELSE Pushed(combine,
                     GridOf(getImageData(combine.data, combine.z,
                                TileOfPass(combine, combine.k)[1],
                                TileOfPass(combine, combine.k)[2]).imageData,
                            combine.encoding))
    /\ UNCHANGED <<adapterVars, routeVars, infoVars, encodeVars, contour>>

AllTileAnswers ==
    {"unasked", "failure", "missing", "null", "corrupt", "image"}

NextCombine ==
    \/ combineTiles
    \/ \E answer \in AllTileAnswers : fetchTileDataSettled(answer)
    \/ getImageDataSettled

CombineCalls ==
    { [pc |-> "called", sourceType |-> s, encoding |-> e,
       z |-> c[1], x |-> c[2], y |-> c[3], k |-> 0,
       neighbors |-> << >>, asked |-> << >>, data |-> "none",
       last |-> "none", centre |-> "none", out |-> "pending"] :
        s \in SourceTypes, e \in Encodings, c \in TileCoordinates }

InitCombine ==
    /\ InitAdapter /\ rev = "adapter" /\ pieceLength = 2
    /\ IdleRoute /\ IdleInfo /\ IdleEncode
    /\ contour = NoContour
    /\ combine \in CombineCalls

SpecCombine == InitCombine /\ [][NextCombine]_vars

\* ------------------------------------------------ claims on combineTiles
\* The height the stored tile (z, x, y) holds at pixel (px, py).
StoredHeight(z, x, y, px, py, encoding) ==
    terrainrgb2height(
        ImageData(z, x, y).data[4 * (py * ImageData(z, x, y).width + px) + 1],
        ImageData(z, x, y).data[4 * (py * ImageData(z, x, y).width + px) + 2],
        ImageData(z, x, y).data[4 * (py * ImageData(z, x, y).width + px) + 3],
        encoding)

\* The pass that asked for tile (x, y).
PassOf(c, x, y) == CHOOSE i \in DOMAIN c.asked : c.asked[i] = <<x, y>>

\* What get(x, y) of the returned grid has to give: the height at the
\* wrapped position of the tile lying x \div width tiles to the right and
\* y \div height tiles below the centre, NaN when that tile is absent.
Wrapped(c, x, y) ==
    IF c.neighbors[PassOf(c, c.x + (x \div c.neighbors[5].width),
                             c.y + (y \div c.neighbors[5].height))] = NoGrid
    THEN NotANumber
    ELSE Height(StoredHeight(c.z,
                                 c.x + (x \div c.neighbors[5].width),
                                 c.y + (y \div c.neighbors[5].height),
                                 x % c.neighbors[5].width,
                                 y % c.neighbors[5].height,
                                 c.encoding))

\* C21: for the grid that combineTiles returns, of the centre tile's
\* width and height, and every x in -width .. 2*width - 1 and y in
\* -height .. 2*height - 1, get(x, y) is the value at (x mod width,
\* y mod height) of the neighbour tile in the matching direction, and NaN
\* when that neighbour is absent.
C21_WrapAround ==
    (combine.pc = "done" /\ combine.out = "grid") =>
        \A x \in (-combine.neighbors[5].width)
                    ..(2 * combine.neighbors[5].width - 1),
           y \in (-combine.neighbors[5].height)
                    ..(2 * combine.neighbors[5].height - 1) :
            CombinedGet(combine.neighbors, combine.neighbors[5].width,
                        combine.neighbors[5].height, x, y)
                = Wrapped(combine, x, y)

\* A grid whose top-left neighbour is present and whose bottom-right one
\* is absent: get(-1, -1) is the last value of the top-left tile,
\* get(width, height) is NaN.
C21_WitnessTopLeft ==
    /\ combine.pc = "done" /\ combine.out = "grid"
    /\ combine.neighbors[1] # NoGrid
    /\ combine.neighbors[9] = NoGrid
    /\ CombinedGet(combine.neighbors, RasterWidth, RasterHeight, -1, -1)
         = combine.neighbors[1].heightValues[RasterWidth * RasterHeight]
    /\ CombinedGet(combine.neighbors, RasterWidth, RasterHeight,
                   RasterWidth, RasterHeight) = NotANumber

\* C22: whatever the source answers and the decoding gives, every step
\* of combineTiles leaves the slots filled so far as they are and adds
\* at most one; the slot added is absent exactly when the answer was a
\* fetch error, no tile or bytes that are no image; after every slot but
\* the ninth the next tile is asked for, so the call never fails and
\* ends with nine tiles asked for; it returns undefined exactly when the
\* centre tile was absent or failed.
C22_NeighbourFailure ==
    [][ /\ combine'.pc \in {"fetching", "decoding", "done"}
        /\ combine'.k = Len(combine'.neighbors)
        /\ combine'.k \in {combine.k, combine.k + 1}
        /\ SubSeq(combine'.neighbors, 1, combine.k) = combine.neighbors
        /\ (combine'.k = combine.k + 1) =>
              (combine'.neighbors[combine'.k] = NoGrid
                 <=> combine'.last # "image")
        /\ Len(combine'.asked)
              = IF combine'.k = 9 THEN 9 ELSE combine'.k + 1
        /\ (combine'.pc = "done" <=> combine'.k = 9)
        /\ (combine'.pc = "done" =>
              (combine'.out = "undefined" <=> combine'.centre # "image")) ]_vars

\* A call that returned a grid although the last neighbour could not be
\* decoded and another neighbour was fetched.
C22_WitnessDecodeError ==
    /\ combine.pc = "done" /\ combine.out = "grid"
    /\ combine.last = "corrupt"
    /\ combine.neighbors[9] = NoGrid
    /\ combine.neighbors[8] # NoGrid
    /\ combine.neighbors[6] = NoGrid

\* C28: every (x, y) that combineTiles passes to fetchTileData lies in
\* the tile grid of zoom z, 0 <= x, y < 2^z.
C28_FetchedInGrid ==
    \A i \in DOMAIN combine.asked :
        InGrid(combine.z, combine.asked[i][1], combine.asked[i][2])

\* A finished call for a corner tile of zoom 1: four of the nine
\* coordinates lie in the grid, the centre among them.
C28_WitnessCorner ==
    /\ combine.pc = "done"
    /\ combine.z = 1
    /\ combine.asked[5] = <<combine.x, combine.y>>
    /\ InGrid(combine.z, combine.asked[5][1], combine.asked[5][2])
    /\ Cardinality({ i \in DOMAIN combine.asked :
                       InGrid(combine.z, combine.asked[i][1],
                              combine.asked[i][2]) }) = 4

=============================================================================
